---------------------------- MODULE Spec2Model ----------------------------
(***************************************************************************)
(* A model of the gamepads crate (fornwall/gamepads): the Gamepads context *)
(* of src/src/lib.rs with the event-stream (gilrs) adapter.  The state is  *)
(* the fields of struct Gamepads; the operations are new(), poll(),        *)
(* rumble() and the read-only queries get()/all() and the Gamepad          *)
(* accessors.                                                              *)
(*                                                                         *)
(* f32 values are modelled on a grid: a raw axis value or a deadzone is an *)
(* integer k standing for k / Scale, and a stored axis value is a pair     *)
(* <<num, den>> standing for the quotient num / den (den = 0 stands for    *)
(* the non-finite result of a division by zero).  On this grid the         *)
(* subtraction and the division of the code are exact.                     *)
(***************************************************************************)
EXTENDS Integers, Sequences, FiniteSets, TLC

\* ---------------------------------------------------------------- bounds

\* Native handles the backend may report: 0 .. NumHandles - 1.
NumHandles == 9

\* Devices the backend may already list when new() runs: 0 .. MaxInitialDevices.
MaxInitialDevices == 9

\* Events one poll() drains from the backend queue.
MaxBatch == 2

\* Handles of the specifications that follow the buttons, the axes and the
\* haptic effects of single devices: 0 .. FewHandles - 1.
FewHandles == 2

\* Buttons a host gamepad of the snapshot adapter reports.
MaxHostButtons == 2

\* The system clock runs over 0 .. MaxTime.
MaxTime == 2

\* duration_ms of a rumble request: 1 .. MaxDuration.
MaxDuration == 2

\* start_delay_ms of a rumble request: 0 .. MaxDelay.
MaxDelay == 1

\* Effects the live-effect list holds: a rumble request is made while it
\* holds fewer.
MaxEffects == 2

\* The longest list of live effects the purge loop is run on by itself.
MaxList == 4

\* Magnitudes k / den are converted for every den up to this one.
MaxDenominator == 8

\* Grid of the f32 values: the integer k stands for k / Scale.
Scale == 2

\* ------------------------------------------------------- program constants

MAX_GAMEPADS == 8

\* u16::MAX
U16_MAX == 65535

\* usize::MAX, the entry of a free slot of gilrs_gamepad_ids: a value that is
\* no handle of the model.
USIZE_MAX == 255

\* Option::None for a slot index, a button or an axis index.
None == -1

Slots == 0 .. (MAX_GAMEPADS - 1)

AxisIdxs == 0 .. 3

\* 0.0 as a stored axis value.
Zero == <<0, 1>>

\* ------------------------------------------------------------------ state

VARIABLES
    gamepads,            \* [Gamepad; MAX_GAMEPADS]
    gilrs_gamepad_ids,   \* [usize; MAX_GAMEPADS]
    num_connected_pads,  \* u8
    deadzones,           \* [[f32; 4]; MAX_GAMEPADS]
    playing_ff_effects,  \* Vec<(gilrs::ff::Effect, u128)>
    now_ms,              \* the system clock, in milliseconds
    op,                  \* history: the most recent operation
    tags,                \* history: what the most recent poll() met
    scenario,            \* history: progress of handle 0 / South through the
                         \* press, hold, release and tap sequences
    queue,               \* the events the backend holds for next_event()
    ingested             \* history: the events the running poll() has taken

vars == <<gamepads, gilrs_gamepad_ids, num_connected_pads, deadzones,
          playing_ff_effects, now_ms, op, tags, scenario, queue, ingested>>

\* The fields of struct Gamepads as one record, for the pure step functions.
Self ==
    [gamepads |-> gamepads,
     gilrs_gamepad_ids |-> gilrs_gamepad_ids,
     num_connected_pads |-> num_connected_pads,
     deadzones |-> deadzones,
     playing_ff_effects |-> playing_ff_effects]

\* ---------------------------------------------------------------- buttons

\* enum Button: the 17 logical buttons in declaration order; the
\* discriminant (button as u32) of the i-th is i - 1.
ButtonEnum ==
    <<"ActionDown", "ActionRight", "ActionLeft", "ActionUp",
      "FrontLeftUpper", "FrontRightUpper", "FrontLeftLower", "FrontRightLower",
      "LeftCenterCluster", "RightCenterCluster", "LeftStick", "RightStick",
      "DPadUp", "DPadDown", "DPadLeft", "DPadRight", "Mode">>

\* Mutant of ButtonAll: two neighbours of the array have changed places.
ButtonAll_swapped ==
    <<"ActionDown", "ActionRight", "ActionUp", "ActionLeft",
      "FrontLeftUpper", "FrontRightUpper", "FrontLeftLower", "FrontRightLower",
      "LeftCenterCluster", "RightCenterCluster", "LeftStick", "RightStick",
      "DPadUp", "DPadDown", "DPadLeft", "DPadRight", "Mode">>

\* Button::all(): the array the iterator runs over.
ButtonAll ==
    <<"ActionDown", "ActionRight", "ActionLeft", "ActionUp",
      "FrontLeftUpper", "FrontRightUpper", "FrontLeftLower", "FrontRightLower",
      "LeftCenterCluster", "RightCenterCluster", "LeftStick", "RightStick",
      "DPadUp", "DPadDown", "DPadLeft", "DPadRight", "Mode">>

\* button as u32
Discriminant(button) ==
    (CHOOSE i \in 1 .. Len(ButtonEnum) : ButtonEnum[i] = button) - 1

\* Button::from_gilrs: the logical button of a native gilrs button, or None.
from_gilrs(button) ==
    CASE button = "South" -> "ActionDown"
      [] button = "East" -> "ActionRight"
      [] button = "West" -> "ActionLeft"
      [] button = "North" -> "ActionUp"
      [] button = "LeftTrigger" -> "FrontLeftUpper"
      [] button = "RightTrigger" -> "FrontRightUpper"
      [] button = "LeftTrigger2" -> "FrontLeftLower"
      [] button = "RightTrigger2" -> "FrontRightLower"
      [] button = "Select" -> "LeftCenterCluster"
      [] button = "Start" -> "RightCenterCluster"
      [] button = "LeftThumb" -> "LeftStick"
      [] button = "RightThumb" -> "RightStick"
      [] button = "DPadUp" -> "DPadUp"
      [] button = "DPadDown" -> "DPadDown"
      [] button = "DPadLeft" -> "DPadLeft"
      [] button = "DPadRight" -> "DPadRight"
      [] button = "Mode" -> "Mode"
      [] OTHER -> "None"

\* 1 << b
Bit(b) == 2 ^ b

\* (bits & (1 << b)) != 0
HasBit(bits, b) == (bits \div Bit(b)) % 2 = 1

\* bits |= 1 << b
SetBit(bits, b) == IF HasBit(bits, b) THEN bits ELSE bits + Bit(b)

\* bits &= !(1 << b)
ClearBit(bits, b) == IF HasBit(bits, b) THEN bits - Bit(b) ELSE bits

\* Gamepad::is_just_pressed (not wasm)
is_just_pressed(pad, button) == HasBit(pad.just_pressed_bits, Discriminant(button))

\* Gamepad::is_currently_pressed
is_currently_pressed(pad, button) == HasBit(pad.pressed_bits, Discriminant(button))


\* ------------------------------------------------------- axis calibration

Abs(x) == IF x < 0 THEN -x ELSE x

\* Mutant of signum: the sign of the value is lost.
signum_positive(x) == 1

\* f32::signum: 1.0 for a positive value and for +0.0, -1.0 for a negative one.
signum(x) == IF x >= 0 THEN 1 ELSE -1

\* Mutant of mul_add: the product is subtracted.
mul_add_wrong_sign(x, a, b) == b - x * a

\* f32::mul_add(self, a, b) = self * a + b
mul_add(x, a, b) == x * a + b

\* Mutant of AxisIndex: an axis that is no stick axis is taken for the
\* first one.
AxisIndex_default(axis) ==
    CASE axis = "LeftStickX" -> 0
      [] axis = "LeftStickY" -> 1
      [] axis = "RightStickX" -> 2
      [] axis = "RightStickY" -> 3
      [] OTHER -> 0

\* The match on the native axis of an AxisChanged event: its axis index.
AxisIndex(axis) ==
    CASE axis = "LeftStickX" -> 0
      [] axis = "LeftStickY" -> 1
      [] axis = "RightStickX" -> 2
      [] axis = "RightStickY" -> 3
      [] OTHER -> None

\* Mutant of Normalize: the deadzone is not subtracted from the magnitude.
Normalize_raw(value, deadzone) ==
    IF Abs(value) < deadzone
    THEN Zero
    ELSE <<value, Scale - deadzone>>

\* The value poll() stores for a raw value and a deadzone (both on the grid):
\* 1 - deadzone is (Scale - deadzone) / Scale.
Normalize(value, deadzone) ==
    IF Abs(value) < deadzone
    THEN Zero
    ELSE <<mul_add(signum(value), -deadzone, value), Scale - deadzone>>

\* The (zone, axis) pairs whose deadzone a Connected event looks up.
ZoneAxes ==
    <<<<0, "LeftStickX">>, <<1, "LeftStickY">>,
      <<2, "RightStickY">>, <<3, "RightStickY">>>>

\* ---------------------------------------------------------- the slot table

\* Mutant of find_or_insert: a new handle takes the highest free slot.
find_or_insert_from_top(self, gilrs_gamepad_id) ==
    IF \E i \in Slots : self.gilrs_gamepad_ids[i] = gilrs_gamepad_id
    THEN [self |-> self,
          idx |-> CHOOSE i \in Slots : self.gilrs_gamepad_ids[i] = gilrs_gamepad_id]
    ELSE IF self.num_connected_pads = MAX_GAMEPADS
         THEN [self |-> self, idx |-> None]
         ELSE LET index == MAX_GAMEPADS - 1 - self.num_connected_pads
              IN  [self |-> [self EXCEPT
                                !.num_connected_pads = @ + 1,
                                !.gilrs_gamepad_ids[index] = gilrs_gamepad_id],
                   idx |-> index]

\* Mutant of find_or_insert: the scan misses slot 0.
find_or_insert_skips_first(self, gilrs_gamepad_id) ==
    LET found == {i \in Slots \ {0} : self.gilrs_gamepad_ids[i] = gilrs_gamepad_id}
    IN  IF found # {}
        THEN [self |-> self,
              idx |-> CHOOSE i \in found : \A j \in found : i <= j]
        ELSE IF self.num_connected_pads = MAX_GAMEPADS
        THEN [self |-> self, idx |-> None]
        ELSE LET index == self.num_connected_pads
             IN  [self |-> [self EXCEPT
                               !.num_connected_pads = index + 1,
                               !.gilrs_gamepad_ids[index] = gilrs_gamepad_id],
                  idx |-> index]

\* Mutant of find_or_insert: a full table gives its last slot to the new
\* handle.
find_or_insert_evicts(self, gilrs_gamepad_id) ==
    LET found == {i \in Slots : self.gilrs_gamepad_ids[i] = gilrs_gamepad_id}
    IN  IF found # {}
        THEN [self |-> self,
              idx |-> CHOOSE i \in found : \A j \in found : i <= j]
        ELSE IF self.num_connected_pads = MAX_GAMEPADS
        THEN [self |-> [self EXCEPT
                          !.gilrs_gamepad_ids[MAX_GAMEPADS - 1] = gilrs_gamepad_id],
              idx |-> MAX_GAMEPADS - 1]
        ELSE LET index == self.num_connected_pads
             IN  [self |-> [self EXCEPT
                               !.num_connected_pads = index + 1,
                               !.gilrs_gamepad_ids[index] = gilrs_gamepad_id],
                  idx |-> index]

\* Gamepads::find_or_insert: the slot of a native handle, claiming the next
\* free slot for a handle that has none; idx = None when the table is full.
find_or_insert(self, gilrs_gamepad_id) ==
    LET found == {i \in Slots : self.gilrs_gamepad_ids[i] = gilrs_gamepad_id}
    IN  IF found # {}
        THEN [self |-> self,
              idx |-> CHOOSE i \in found : \A j \in found : i <= j]
        ELSE IF self.num_connected_pads = MAX_GAMEPADS
        THEN [self |-> self, idx |-> None]
        ELSE LET index == self.num_connected_pads
             IN  [self |-> [self EXCEPT
                               !.num_connected_pads = index + 1,
                               !.gilrs_gamepad_ids[index] = gilrs_gamepad_id],
                  idx |-> index]

\* ------------------------------------------------------------------- poll

\* The deadzone loop of a Connected event: zones 1 .. n of ZoneAxes applied
\* to the deadzone row of a slot.  info is the backend's answer for the
\* device: per native axis, whether it has a code and the deadzone of it
\* (None when the backend knows none: unwrap_or_default gives 0).
RECURSIVE ConnectedDeadzones(_, _, _)
ConnectedDeadzones(row, info, n) ==
    IF n = 0
    THEN row
    ELSE LET prev == ConnectedDeadzones(row, info, n - 1)
             zone == ZoneAxes[n][1]
             ans == info[ZoneAxes[n][2]]
         IN  IF ans.axis_code
             THEN [prev EXCEPT ![zone] =
                      IF ans.deadzone = None THEN 0 ELSE ans.deadzone]
             ELSE prev

\* The Connected arm, given the slot of the device.
OnConnected(s, gamepad_idx, info) ==
    [s EXCEPT
       !.gamepads[gamepad_idx].connected = TRUE,
       !.deadzones[gamepad_idx] = ConnectedDeadzones(@, info, Len(ZoneAxes))]

\* Mutant of OnDisconnected: the slot is released.
OnDisconnected_frees(s, gamepad_idx) ==
    [s EXCEPT !.gamepads[gamepad_idx].connected = FALSE,
              !.gilrs_gamepad_ids[gamepad_idx] = USIZE_MAX]

\* Mutant of OnDisconnected: the buttons of the slot are released.
OnDisconnected_releases(s, gamepad_idx) ==
    [s EXCEPT !.gamepads[gamepad_idx].connected = FALSE,
              !.gamepads[gamepad_idx].pressed_bits = 0]

\* Mutant of OnDisconnected: the live effects of the device are dropped.
OnDisconnected_stops_effects(s, gamepad_idx) ==
    [s EXCEPT !.gamepads[gamepad_idx].connected = FALSE,
              !.playing_ff_effects =
                  SelectSeq(@, LAMBDA e :
                      e.effect.gamepad # s.gilrs_gamepad_ids[gamepad_idx])]

\* Mutant of OnDisconnected: the deadzones of the slot are reset.
OnDisconnected_resets_deadzones(s, gamepad_idx) ==
    [s EXCEPT !.gamepads[gamepad_idx].connected = FALSE,
              !.deadzones[gamepad_idx] = [a \in AxisIdxs |-> 0]]

\* The Disconnected arm.
OnDisconnected(s, gamepad_idx) ==
    [s EXCEPT !.gamepads[gamepad_idx].connected = FALSE]

\* Mutant of OnButtonPressed: only the just-pressed mask is set.
OnButtonPressed_only_just(s, gamepad_idx, button) ==
    LET b == from_gilrs(button)
    IN  IF b = "None"
        THEN s
        ELSE [s EXCEPT
                !.gamepads[gamepad_idx].just_pressed_bits =
                    SetBit(@, Discriminant(b))]

\* Mutant of OnButtonPressed: a press marks the slot as connected.
OnButtonPressed_connects(s, gamepad_idx, button) ==
    LET b == from_gilrs(button)
    IN  IF b = "None"
        THEN s
        ELSE [s EXCEPT
                !.gamepads[gamepad_idx].connected = TRUE,
                !.gamepads[gamepad_idx].pressed_bits =
                    SetBit(@, Discriminant(b)),
                !.gamepads[gamepad_idx].just_pressed_bits =
                    SetBit(@, Discriminant(b))]

\* Mutant of OnButtonPressed: the just-pressed bit is set only when the
\* button was not pressed before the event.
OnButtonPressed_edge_only(s, gamepad_idx, button) ==
    LET b == from_gilrs(button)
    IN  IF b = "None"
        THEN s
        ELSE [s EXCEPT
                !.gamepads[gamepad_idx].pressed_bits =
                    SetBit(@, Discriminant(b)),
                !.gamepads[gamepad_idx].just_pressed_bits =
                    IF HasBit(s.gamepads[gamepad_idx].pressed_bits, Discriminant(b))
                    THEN @
                    ELSE SetBit(@, Discriminant(b))]

\* The ButtonPressed arm.
OnButtonPressed(s, gamepad_idx, button) ==
    LET b == from_gilrs(button)
    IN  IF b = "None"
        THEN s
        ELSE [s EXCEPT
                !.gamepads[gamepad_idx].pressed_bits =
                    SetBit(@, Discriminant(b)),
                !.gamepads[gamepad_idx].just_pressed_bits =
                    SetBit(@, Discriminant(b))]

\* Mutant of OnButtonReleased: the release clears the just-pressed bit too.
OnButtonReleased_clears_just(s, gamepad_idx, button) ==
    LET b == from_gilrs(button)
    IN  IF b = "None"
        THEN s
        ELSE [s EXCEPT
                !.gamepads[gamepad_idx].pressed_bits =
                    ClearBit(@, Discriminant(b)),
                !.gamepads[gamepad_idx].just_pressed_bits =
                    ClearBit(@, Discriminant(b))]

\* The ButtonReleased arm.
OnButtonReleased(s, gamepad_idx, button) ==
    LET b == from_gilrs(button)
    IN  IF b = "None"
        THEN s
        ELSE [s EXCEPT
                !.gamepads[gamepad_idx].pressed_bits =
                    ClearBit(@, Discriminant(b))]

\* Mutant of OnAxisChanged: the value is written to the axis of every slot.
OnAxisChanged_every_slot(s, gamepad_idx, axis, value) ==
    LET axis_idx == AxisIndex(axis)
    IN  IF axis_idx = None
        THEN s
        ELSE [s EXCEPT !.gamepads =
                [i \in Slots |->
                    [s.gamepads[i] EXCEPT !.axes[axis_idx] =
                        Normalize(value, s.deadzones[gamepad_idx][axis_idx])]]]

\* The AxisChanged arm.
OnAxisChanged(s, gamepad_idx, axis, value) ==
    LET axis_idx == AxisIndex(axis)
    IN  IF axis_idx = None
        THEN s
        ELSE [s EXCEPT
                !.gamepads[gamepad_idx].axes[axis_idx] =
                    Normalize(value, s.deadzones[gamepad_idx][axis_idx])]

\* The event types whose arm calls find_or_insert; every other type falls
\* to the `_ => {}` arm.
SlotEventTypes ==
    {"Connected", "Disconnected", "ButtonPressed", "ButtonReleased",
     "AxisChanged"}

\* One iteration of the event loop of poll(): the match on the event type.
Ingest(self, ev) ==
    IF ev.type \notin SlotEventTypes
    THEN self
    ELSE
    LET r == find_or_insert(self, ev.id)
        s == r.self
        gamepad_idx == r.idx
    IN  IF gamepad_idx = None
        THEN s
        ELSE CASE ev.type = "Connected" ->
                    OnConnected(s, gamepad_idx, ev.info)
               [] ev.type = "Disconnected" ->
                    OnDisconnected(s, gamepad_idx)
               [] ev.type = "ButtonPressed" ->
                    OnButtonPressed(s, gamepad_idx, ev.button)
               [] ev.type = "ButtonReleased" ->
                    OnButtonReleased(s, gamepad_idx, ev.button)
               [] ev.type = "AxisChanged" ->
                    OnAxisChanged(s, gamepad_idx, ev.axis, ev.value)

\* Mutant of next_event: the event behind the one returned is lost.
next_event_drops(q) ==
    [event |-> Head(q),
     rest |-> IF Len(q) > 1 THEN Tail(Tail(q)) ELSE <<>>]

\* gilrs_instance.next_event() on a queue that is not empty: the event at the
\* front, and the queue it leaves.
next_event(q) == [event |-> Head(q), rest |-> Tail(q)]

\* Mutant of Drain: the queue is ingested from its back.
RECURSIVE Drain_reversed(_, _)
Drain_reversed(self, evs) ==
    IF evs = <<>>
    THEN self
    ELSE Ingest(Drain_reversed(self, Tail(evs)), Head(evs))

\* The while loop of poll(): the events of the queue ingested in order.
RECURSIVE Drain(_, _)
Drain(self, evs) ==
    IF evs = <<>> THEN self ELSE Drain(Ingest(self, Head(evs)), Tail(evs))

\* Mutant of ClearJustPressed: the masks are kept.
ClearJustPressed_kept(self) == self

\* The first loop of poll(): just_pressed_bits = 0 in every slot.
ClearJustPressed(self) ==
    [self EXCEPT !.gamepads =
        [i \in Slots |-> [self.gamepads[i] EXCEPT !.just_pressed_bits = 0]]]

\* Gamepads::poll on a backend queue holding evs.
poll(self, evs) == Drain(ClearJustPressed(self), evs)

\* ---------------------------------------------------------------- queries

\* Gamepads::get: the pad of an id if it is connected; None is <<>>, Some(pad)
\* is <<pad>>.
get(self, gamepad_id) ==
    LET pad == self.gamepads[gamepad_id]
    IN  IF pad.connected THEN <<pad>> ELSE <<>>

\* Mutant of all: the connected flag is not tested.
all_unfiltered(self) == [i \in 1 .. MAX_GAMEPADS |-> self.gamepads[i - 1]]

\* Gamepads::all: the array in index order, filtered by the connected flag.
all(self) ==
    LET arr == [i \in 1 .. MAX_GAMEPADS |-> self.gamepads[i - 1]]
        connected(pad) == pad.connected
    IN  SelectSeq(arr, connected)

\* Gamepad::all_currently_pressed
all_currently_pressed(pad) ==
    LET f(button) == is_currently_pressed(pad, button)
    IN  SelectSeq(ButtonAll, f)

\* Gamepad::all_just_pressed
all_just_pressed(pad) ==
    LET f(button) == is_just_pressed(pad, button)
    IN  SelectSeq(ButtonAll, f)

\* Gamepad::left_stick
left_stick(pad) == <<pad.axes[0], pad.axes[1]>>

\* Gamepad::right_stick
right_stick(pad) == <<pad.axes[2], pad.axes[3]>>

\* ----------------------------------------------------------------- rumble

\* Mutant of swap_remove: the last element is dropped whatever i is.
swap_remove_last(v, i) == SubSeq(v, 1, Len(v) - 1)

\* Vec::swap_remove(i), on a sequence indexed from 1.
swap_remove(v, i) ==
    LET n == Len(v)
        w == IF i = n THEN v ELSE [v EXCEPT ![i] = v[n]]
    IN  SubSeq(w, 1, n - 1)

\* Mutant of Expired: an effect that has not expired is thrown away.
Expired_flipped(entry, now) == entry.throw_away_at > now

\* The test of the purge loop: self.playing_ff_effects[i].1 < now_ms.
Expired(entry, now) == entry.throw_away_at < now

\* The purge loop of rumble(): indices i, i - 1, .., 1 in this order.
RECURSIVE Purge(_, _, _)
Purge(effects, now, i) ==
    IF i = 0
    THEN effects
    ELSE Purge(IF Expired(effects[i], now)
               THEN swap_remove(effects, i)
               ELSE effects,
               now, i - 1)

\* Mutant of Round: the fraction is cut off.
Round_truncated(num, den) ==
    IF num >= 0 THEN num \div den ELSE -((-num) \div den)

\* f32::round of num / den (den > 0): the nearest integer, halves away from
\* zero.
Round(num, den) ==
    IF num >= 0
    THEN (2 * num + den) \div (2 * den)
    ELSE -((2 * (-num) + den) \div (2 * den))

\* The cast `as u16` of a float that holds an integer: it saturates.
AsU16(x) == IF x < 0 THEN 0 ELSE IF x > U16_MAX THEN U16_MAX ELSE x

\* (f32::from(u16::MAX) * magnitude).round() as u16, for magnitude = k / den.
MagnitudeOf(k, den) == AsU16(Round(U16_MAX * k, den))

\* The same for a magnitude m / Scale.
NativeMagnitude(m) == MagnitudeOf(m, Scale)

\* Mutant of ThrowAwayAt: the start delay is left out.
ThrowAwayAt_no_delay(now, duration_ms, start_delay_ms) == now + duration_ms

\* now_ms + u128::from(duration_ms) + u128::from(start_delay_ms)
ThrowAwayAt(now, duration_ms, start_delay_ms) ==
    now + duration_ms + start_delay_ms

\* Mutant of rumble: the request also resets the just-pressed masks.
rumble_clears_just(self, now, gamepad_id, duration_ms, start_delay_ms, strong_magnitude, weak_magnitude, accepted) ==
    LET purged == Purge(self.playing_ff_effects, now,
                        Len(self.playing_ff_effects))
        throw_away_at == now + duration_ms + start_delay_ms
    IN  [ClearJustPressed(self) EXCEPT !.playing_ff_effects =
            IF accepted
            THEN Append(purged, [effect |-> [gamepad |-> self.gilrs_gamepad_ids[gamepad_id]],
                                 throw_away_at |-> throw_away_at])
            ELSE purged]

\* Mutant of rumble: the entry is pushed whether or not the backend took
\* the effect.
rumble_keeps_rejected(self, now, gamepad_id, duration_ms, start_delay_ms, strong_magnitude, weak_magnitude, accepted) ==
    LET purged == Purge(self.playing_ff_effects, now,
                        Len(self.playing_ff_effects))
        effect == [gamepad |-> self.gilrs_gamepad_ids[gamepad_id],
                   strong |-> NativeMagnitude(strong_magnitude),
                   weak |-> NativeMagnitude(weak_magnitude),
                   play_for |-> duration_ms,
                   after |-> start_delay_ms]
    IN  [self EXCEPT !.playing_ff_effects =
            Append(purged,
                   [effect |-> effect,
                    throw_away_at |->
                        ThrowAwayAt(now, duration_ms, start_delay_ms)])]

\* Gamepads::rumble on the fields of Gamepads.  accepted: the backend builds
\* the effect (finish) and starts it (play).
rumble(self, now, gamepad_id, duration_ms, start_delay_ms, strong_magnitude, weak_magnitude, accepted) ==
    LET purged == Purge(self.playing_ff_effects, now,
                        Len(self.playing_ff_effects))
        gilrs_gamepad_id == self.gilrs_gamepad_ids[gamepad_id]
        effect == [gamepad |-> gilrs_gamepad_id,
                   strong |-> NativeMagnitude(strong_magnitude),
                   weak |-> NativeMagnitude(weak_magnitude),
                   play_for |-> duration_ms,
                   after |-> start_delay_ms]
        throw_away_at == ThrowAwayAt(now, duration_ms, start_delay_ms)
    IN  [self EXCEPT !.playing_ff_effects =
            IF accepted
            THEN Append(purged, [effect |-> effect,
                                 throw_away_at |-> throw_away_at])
            ELSE purged]

\* ------------------------------------------------------------ construction

\* The struct literal of new(): every slot free and zeroed.
Empty ==
    [gamepads |->
        [idx \in Slots |->
            [id |-> idx,
             connected |-> FALSE,
             pressed_bits |-> 0,
             axes |-> [a \in AxisIdxs |-> Zero],
             just_pressed_bits |-> 0]],
     gilrs_gamepad_ids |-> [idx \in Slots |-> USIZE_MAX],
     num_connected_pads |-> 0,
     deadzones |-> [idx \in Slots |-> [a \in AxisIdxs |-> 0]],
     playing_ff_effects |-> <<>>]

\* The loop of new() over the backend's device list: devices is a sequence
\* of <<id, connected>> pairs.
RECURSIVE Register(_, _)
Register(self, devices) ==
    IF devices = <<>>
    THEN self
    ELSE LET r == find_or_insert(self, Head(devices)[1])
             s == IF r.idx = None
                  THEN r.self
                  ELSE [r.self EXCEPT
                          !.gamepads[r.idx].connected = Head(devices)[2]]
         IN  Register(s, Tail(devices))

\* Gamepads::new with a backend whose queue holds evs and whose device list
\* is devices.
new(evs, devices) == Register(poll(Empty, evs), devices)

\* Mutant of new_or_abort: a backend that did not start is passed over and
\* the struct literal is returned.
new_or_abort_lenient(started, evs, devices) ==
    IF started THEN <<new(evs, devices)>> ELSE <<Empty>>

\* Gamepads::new with the outcome of gilrs::Gilrs::new(): the unwrap() in
\* the struct literal panics when the backend did not start, before any
\* Gamepads value exists.  <<value>> when new() returns, <<>> when it panics.
new_or_abort(started, evs, devices) ==
    IF started THEN <<new(evs, devices)>> ELSE <<>>

\* ------------------------------------------------- the backend's events

Handles == 0 .. (NumHandles - 1)

\* The four stick axes of gilrs::Axis.
StickAxes == {"LeftStickX", "LeftStickY", "RightStickX", "RightStickY"}

\* The backend's answer for one axis of a device: axis_code() is Some or
\* None, and deadzone(code) is Some(k / Scale) or None.
NoCode == [axis_code |-> FALSE, deadzone |-> None]

UnknownDeadzone == [axis_code |-> TRUE, deadzone |-> None]

Deadzone(k) == [axis_code |-> TRUE, deadzone |-> k]

Uniform(ans) == [a \in StickAxes |-> ans]

\* The answers of the model's devices: one answer for all four axes, or a
\* right stick whose x axis has no deadzone while every other axis has one.
Infos ==
    {Uniform(NoCode), Uniform(UnknownDeadzone)}
    \cup {Uniform(Deadzone(k)) : k \in 0 .. Scale}
    \cup {[Uniform(Deadzone(1)) EXCEPT !["RightStickX"] = Deadzone(0)]}

Connected(h, info) == [id |-> h, type |-> "Connected", info |-> info]

Disconnected(h) == [id |-> h, type |-> "Disconnected"]

ButtonPressed(h, button) == [id |-> h, type |-> "ButtonPressed", button |-> button]

ButtonReleased(h, button) == [id |-> h, type |-> "ButtonReleased", button |-> button]

AxisChanged(h, axis, value) == [id |-> h, type |-> "AxisChanged", axis |-> axis, value |-> value]

\* An event type poll() does not match (gilrs::EventType::ButtonChanged).
ButtonChanged(h) == [id |-> h, type |-> "ButtonChanged"]

\* Sequences over S of length at most n.
SeqsUpTo(S, n) == UNION {[1 .. k -> S] : k \in 0 .. n}

\* Handles are compared for equality only, so the model numbers them by
\* first appearance: with n slots claimed, an event carries a handle that has
\* a slot or the next new handle; once the table is full every further
\* handle is new.
RECURSIVE Arrives(_, _)
Arrives(n, evs) ==
    IF evs = <<>>
    THEN TRUE
    ELSE /\ \/ Head(evs).id <= n
            \/ n = MAX_GAMEPADS
         /\ Arrives(IF Head(evs).id = n /\ n < MAX_GAMEPADS
                       /\ Head(evs).type \in SlotEventTypes
                    THEN n + 1
                    ELSE n,
                    Tail(evs))

\* The handles the events of one poll address when n slots are claimed: the
\* first handle, the handle registered last, and new handles.
Focus(n) ==
    {h \in Handles : h = 0 \/ h = n - 1 \/ h = n \/ (n = MAX_GAMEPADS /\ h > n)}

\* The batches one poll may drain with n slots claimed: the sequences of at
\* most MaxBatch of the events in E.
Batches(E, n) == {evs \in SeqsUpTo(E, MaxBatch) : Arrives(n, evs)}

\* ------------------------------------------- the snapshot adapter (wasm)

\* Under target_family = "wasm" struct Gamepad holds last_pressed_bits in
\* place of just_pressed_bits, and struct Gamepads holds the array only.
WasmGamepads ==
    [idx \in Slots |->
        [id |-> idx,
         connected |-> FALSE,
         pressed_bits |-> 0,
         axes |-> [a \in AxisIdxs |-> Zero],
         last_pressed_bits |-> 0]]

\* Gamepad::is_just_pressed (wasm)
is_just_pressed_wasm(pad, button) ==
    /\ HasBit(pad.pressed_bits, Discriminant(button))
    /\ ~HasBit(pad.last_pressed_bits, Discriminant(button))

\* Gamepad::all_just_pressed (wasm)
all_just_pressed_wasm(pad) ==
    LET test(button) == is_just_pressed_wasm(pad, button)
    IN  SelectSeq(ButtonAll, test)

\* An entry of navigator.getGamepads(): null, or a gamepad with its index,
\* its connected flag, the pressed flags of its buttons and its axes.
Null ==
    [null |-> TRUE, index |-> 0, connected |-> FALSE,
     buttons |-> <<>>, axes |-> <<>>]

HostPad(index, connected, buttons, axes) ==
    [null |-> FALSE, index |-> index, connected |-> connected,
     buttons |-> buttons, axes |-> axes]

\* Mutant of SaveLastPressed: the copy of the previous masks is not taken.
SaveLastPressed_skipped(gs) == gs

\* The first loop of poll() (wasm): last_pressed_bits = pressed_bits.
SaveLastPressed(gs) ==
    [i \in Slots |-> [gs[i] EXCEPT !.last_pressed_bits = gs[i].pressed_bits]]

\* The loop over gamepad.buttons(): bit button_idx for a pressed button,
\* buttons being a sequence of pressed flags and n the number taken.
RECURSIVE PressedBits(_, _)
PressedBits(buttons, n) ==
    IF n = 0
    THEN 0
    ELSE LET rest == PressedBits(buttons, n - 1)
         IN  IF buttons[n] THEN SetBit(rest, n - 1) ELSE rest

\* The loop over gamepad.axes() from the k-th value on, on the state
\* r = [gamepads, panicked]: axes[axes_idx] = value, negated for odd
\* axes_idx; an axes_idx outside the array panics.
RECURSIVE WriteAxes(_, _, _, _)
WriteAxes(r, index, axes, k) ==
    IF k > Len(axes)
    THEN r
    ELSE LET axes_idx == k - 1
         IN  IF axes_idx \notin AxisIdxs
             THEN [r EXCEPT !.panicked = TRUE]
             ELSE WriteAxes(
                     [r EXCEPT !.gamepads[index].axes[axes_idx] =
                         <<IF axes_idx % 2 = 1 THEN -axes[k] ELSE axes[k],
                           Scale>>],
                     index, axes, k + 1)

\* The body of the loop of poll() (wasm-bindgen) for one gamepad of the
\* host: an index outside the array panics at the first write.
ApplyHostPad(r, gamepad) ==
    IF gamepad.index \notin Slots
    THEN [r EXCEPT !.panicked = TRUE]
    ELSE WriteAxes(
            [r EXCEPT
                !.gamepads[gamepad.index].pressed_bits =
                    PressedBits(gamepad.buttons, Len(gamepad.buttons)),
                !.gamepads[gamepad.index].connected = gamepad.connected],
            gamepad.index, gamepad.axes, 1)

\* The loop of poll() (wasm-bindgen) over the entries of the host's list
\* that are not null; a panic ends it.
RECURSIVE ApplySnapshot(_, _)
ApplySnapshot(r, snapshot) ==
    IF snapshot = <<>> \/ r.panicked
    THEN r
    ELSE ApplySnapshot(IF Head(snapshot).null
                       THEN r
                       ELSE ApplyHostPad(r, Head(snapshot)),
                       Tail(snapshot))

\* Gamepads::poll (wasm-bindgen) on the array gs with the host's list
\* snapshot: the array it leaves, and whether it panicked.
poll_wasm(gs, snapshot) ==
    ApplySnapshot([gamepads |-> SaveLastPressed(gs), panicked |-> FALSE],
                  snapshot)

\* ------------------------------------ the raw-input adapter (android, winit)

\* The adapter keeps its table of winit device ids (android_winit_gamepad_ids)
\* where the event-stream adapter keeps gilrs_gamepad_ids, and the model
\* holds it in the same field; a free entry equals no device id.

\* The match on the scancode of a key event: the logical button, or "None"
\* for the `_ => return` arm.
KeyButton(scancode) ==
    CASE scancode = 19 -> "DPadUp"
      [] scancode = 20 -> "DPadDown"
      [] scancode = 21 -> "DPadLeft"
      [] scancode = 22 -> "DPadRight"
      [] scancode = 96 -> "ActionDown"
      [] scancode = 97 -> "ActionRight"
      [] scancode = 99 -> "ActionLeft"
      [] scancode = 100 -> "ActionUp"
      [] scancode = 102 -> "FrontLeftUpper"
      [] scancode = 103 -> "FrontRightUpper"
      [] scancode = 104 -> "FrontLeftLower"
      [] scancode = 105 -> "FrontRightLower"
      [] scancode = 106 -> "LeftStick"
      [] scancode = 107 -> "RightStick"
      [] scancode = 108 -> "RightCenterCluster"
      [] scancode = 109 -> "LeftCenterCluster"
      [] OTHER -> "None"

\* Mutant of find_or_insert_winit: a slot is marked connected when it is
\* claimed.
find_or_insert_winit_connects(self, winit_device_id) ==
    IF \E i \in Slots : self.gilrs_gamepad_ids[i] = winit_device_id
    THEN [self |-> self,
          idx |-> CHOOSE i \in Slots : self.gilrs_gamepad_ids[i] = winit_device_id]
    ELSE IF self.num_connected_pads = MAX_GAMEPADS
         THEN [self |-> self, idx |-> None]
         ELSE [self |-> [self EXCEPT
                            !.num_connected_pads = @ + 1,
                            !.gilrs_gamepad_ids[self.num_connected_pads] =
                                winit_device_id,
                            !.gamepads[self.num_connected_pads].connected = TRUE],
               idx |-> self.num_connected_pads]

\* find_or_insert of the raw-input adapter.
find_or_insert_winit(self, winit_device_id) ==
    IF \E i \in Slots : self.gilrs_gamepad_ids[i] = winit_device_id
    THEN [self |-> self,
          idx |-> CHOOSE i \in Slots :
                     /\ self.gilrs_gamepad_ids[i] = winit_device_id
                     /\ \A j \in Slots :
                           self.gilrs_gamepad_ids[j] = winit_device_id => i <= j]
    ELSE IF self.num_connected_pads = MAX_GAMEPADS
         THEN [self |-> self, idx |-> None]
         ELSE [self |-> [self EXCEPT
                            !.num_connected_pads = @ + 1,
                            !.gilrs_gamepad_ids[self.num_connected_pads] =
                                winit_device_id],
               idx |-> self.num_connected_pads]

\* The tuples of the loop of the AxisUpdate arm: the position in values the
\* value is read from (values[0] of the code is values[1] here), the button
\* of a negative value and the button of a positive one.
DPadPairs ==
    <<<<1, "DPadLeft", "DPadRight">>, <<1, "DPadUp", "DPadDown">>>>

\* The body of that loop for one tuple, on the pad of the device.
DPadStep(pad, val, negative_button, positive_button) ==
    LET negative_bit == Discriminant(negative_button)
        posive_bit == Discriminant(positive_button)
    IN  IF val < 0
        THEN [pad EXCEPT
                !.pressed_bits = ClearBit(SetBit(@, negative_bit), posive_bit),
                !.just_pressed_bits = SetBit(@, negative_bit)]
        ELSE IF val > 0
        THEN [pad EXCEPT
                !.pressed_bits = ClearBit(SetBit(@, posive_bit), negative_bit),
                !.just_pressed_bits = SetBit(@, posive_bit)]
        ELSE [pad EXCEPT
                !.pressed_bits = ClearBit(ClearBit(@, negative_bit), posive_bit)]

\* The loop over the first n tuples.
RECURSIVE DPadLoop(_, _, _)
DPadLoop(pad, values, n) ==
    IF n = 0
    THEN pad
    ELSE DPadStep(DPadLoop(pad, values, n - 1), values[DPadPairs[n][1]],
                  DPadPairs[n][2], DPadPairs[n][3])

\* The AxisUpdate arm: values holds six raw values on the grid, and the last
\* four of them are stored as the axes.
OnAxisUpdate(self, device_id, values) ==
    LET r == find_or_insert_winit(self, device_id)
    IN  IF r.idx = None
        THEN r.self
        ELSE [r.self EXCEPT !.gamepads[r.idx] =
                 [DPadLoop(@, values, Len(DPadPairs)) EXCEPT
                     !.axes = [a \in AxisIdxs |-> <<values[a + 3], Scale>>]]]

\* The KeyboardInput arm for a key whose logical key is an android scancode.
OnKeyboardInput(self, device_id, scancode, pressed) ==
    LET r == find_or_insert_winit(self, device_id)
        gamepad_button == KeyButton(scancode)
    IN  IF r.idx = None \/ gamepad_button = "None"
        THEN r.self
        ELSE IF pressed
        THEN [r.self EXCEPT
                !.gamepads[r.idx].pressed_bits =
                    SetBit(@, Discriminant(gamepad_button)),
                !.gamepads[r.idx].just_pressed_bits =
                    SetBit(@, Discriminant(gamepad_button))]
        ELSE [r.self EXCEPT
                !.gamepads[r.idx].pressed_bits =
                    ClearBit(@, Discriminant(gamepad_button))]

\* The events on_event is called with.  A key event whose logical key is no
\* android scancode has scancode None.
AxisUpdate(device_id, values) ==
    [type |-> "AxisUpdate", device_id |-> device_id, values |-> values]

KeyboardInput(device_id, scancode, pressed) ==
    [type |-> "KeyboardInput", device_id |-> device_id, scancode |-> scancode, pressed |-> pressed]

Touch == [type |-> "Touch"]

\* Gamepads::on_event.
on_event(self, event) ==
    CASE event.type = "KeyboardInput" /\ event.scancode # None ->
            OnKeyboardInput(self, event.device_id, event.scancode, event.pressed)
      [] event.type = "AxisUpdate" ->
            OnAxisUpdate(self, event.device_id, event.values)
      [] OTHER -> self

\* VIBRATION_MAX_AMPLITUDE of rumble_android.
VIBRATION_MAX_AMPLITUDE == 255

\* The vibrator indices of rumble_android.
STRONG_MAGNITUDE_IDX == 0

WEAK_MAGNITUDE_IDX == 1

\* scale_magnitude: (magnitude.clamp(0., 1.) * 255.).round() as i32, for
\* magnitude = m / Scale.
scale_magnitude(m) ==
    LET clamped == IF m < 0 THEN 0 ELSE IF m > Scale THEN Scale ELSE m
    IN  Round(VIBRATION_MAX_AMPLITUDE * clamped, Scale)

\* The add_vibrator calls of rumble_android in their order, as the pairs
\* (vibrator_idx, magnitude) added to the parallel combination.
AddedVibrators(strong_magnitude, weak_magnitude) ==
    LET strong == scale_magnitude(strong_magnitude)
        weak == scale_magnitude(weak_magnitude)
    IN  (IF strong > 0
         THEN <<[vibrator_idx |-> WEAK_MAGNITUDE_IDX, magnitude |-> strong]>>
         ELSE <<>>)
        \o (IF weak > 0
            THEN <<[vibrator_idx |-> STRONG_MAGNITUDE_IDX, magnitude |-> weak]>>
            ELSE <<>>)

\* rumble_android for a device with num_vibrators vibrators: the combined
\* vibrations handed to vibrate(), none with fewer than two vibrators.
rumble_android(duration_ms, strong_magnitude, weak_magnitude, num_vibrators) ==
    IF num_vibrators < 2
    THEN <<>>
    ELSE <<[duration_ms |-> duration_ms,
            vibrators |-> AddedVibrators(strong_magnitude, weak_magnitude)]>>

\* ------------------------------------------------------ history variables

\* The handle and the native button the scenario variable follows: the first
\* handle to appear.
WatchedHandle == CHOOSE h \in Handles : \A g \in Handles : h <= g

WatchedButton == "South"

IsPress(ev, h, button) ==
    ev.type = "ButtonPressed" /\ ev.id = h /\ ev.button = button

IsRelease(ev, h, button) ==
    ev.type = "ButtonReleased" /\ ev.id = h /\ ev.button = button

\* The batch holds events for h, and all of them are presses of button.
PressOnly(evs, h, button) ==
    /\ \E i \in 1 .. Len(evs) : evs[i].id = h
    /\ \A i \in 1 .. Len(evs) : evs[i].id = h => IsPress(evs[i], h, button)

\* The batch holds events for h, and all of them are releases of button.
ReleaseOnly(evs, h, button) ==
    /\ \E i \in 1 .. Len(evs) : evs[i].id = h
    /\ \A i \in 1 .. Len(evs) : evs[i].id = h => IsRelease(evs[i], h, button)

\* The batch holds no event for h.
Quiet(evs, h) == \A i \in 1 .. Len(evs) : evs[i].id # h

\* The batch holds no press of button for h.
NoPress(evs, h, button) ==
    \A i \in 1 .. Len(evs) : ~IsPress(evs[i], h, button)

\* The batch holds a press of button for h, then a release of it, and no
\* press of it after that release.
Tap(evs, h, button) ==
    \E i, j \in 1 .. Len(evs) :
        /\ i < j
        /\ IsPress(evs[i], h, button)
        /\ IsRelease(evs[j], h, button)
        /\ \A k \in (j + 1) .. Len(evs) : ~IsPress(evs[k], h, button)

\* The slot that holds handle h, or None.
SlotOf(self, h) ==
    IF \E i \in Slots : self.gilrs_gamepad_ids[i] = h
    THEN CHOOSE i \in Slots : self.gilrs_gamepad_ids[i] = h
    ELSE None

\* The scenario after a poll that drained evs and left the state post:
\*   "pressed"   the poll delivered only a press, to a connected slot;
\*   "held"      then polls with no event for the slot followed;
\*   "released"  then a poll that delivered only a release;
\*   "tap"       the poll delivered a press and then a release;
\*   "tapped"    the poll after a tap delivered no press.
Track(scn, evs, post) ==
    LET h == WatchedHandle
        b == WatchedButton
        slot == SlotOf(post, h)
    IN  CASE Tap(evs, h, b) -> "tap"
          [] PressOnly(evs, h, b) /\ slot # None
             /\ post.gamepads[slot].connected -> "pressed"
          [] Quiet(evs, h) /\ scn \in {"pressed", "held"} -> "held"
          [] ReleaseOnly(evs, h, b) /\ scn = "held" -> "released"
          [] NoPress(evs, h, b) /\ scn = "tap" -> "tapped"
          [] OTHER -> "none"

\* What a poll that drained evs from the state pre and left post has met:
\*   "dropped"       an event for a handle that found no slot;
\*   "disconnected"  a Disconnected event for a handle that has a slot;
\*   "reconnected"   a Disconnected and then a Connected event for a handle
\*                   that had a slot before the poll;
\*   "axis"          an AxisChanged event for a stick axis of a handle that
\*                   has a slot, as its last event;
\*   "edge"          such an event whose magnitude is the deadzone of the axis;
\*   "unmapped"      a button event of a native button without a logical
\*                   button, or an AxisChanged event of an axis that is no
\*                   stick axis, for a handle that had a slot before the poll;
\*   "rewritten"     two AxisChanged events with different values for the
\*                   same stick axis of a handle that has a slot.
Unmapped(ev) ==
    \/ /\ ev.type \in {"ButtonPressed", "ButtonReleased"}
       /\ from_gilrs(ev.button) = "None"
    \/ /\ ev.type = "AxisChanged"
       /\ AxisIndex(ev.axis) = None

AtEdge(post, ev) ==
    LET slot == SlotOf(post, ev.id)
    IN  /\ slot # None
        /\ Abs(ev.value) = post.deadzones[slot][AxisIndex(ev.axis)]

Met(pre, evs, post) ==
    {t \in {"dropped", "disconnected", "reconnected", "axis", "edge",
            "unmapped", "rewritten"} :
        \/ /\ t = "dropped"
           /\ \E i \in 1 .. Len(evs) :
                 /\ evs[i].type \in SlotEventTypes
                 /\ SlotOf(post, evs[i].id) = None
        \/ /\ t = "disconnected"
           /\ \E i \in 1 .. Len(evs) :
                 /\ evs[i].type = "Disconnected"
                 /\ SlotOf(post, evs[i].id) # None
        \/ /\ t = "reconnected"
           /\ \E i, j \in 1 .. Len(evs) :
                 /\ i < j
                 /\ evs[i].type = "Disconnected"
                 /\ evs[j].type = "Connected"
                 /\ evs[i].id = evs[j].id
                 /\ SlotOf(pre, evs[i].id) # None
        \/ /\ t = "axis"
           /\ evs # <<>>
           /\ evs[Len(evs)].type = "AxisChanged"
           /\ evs[Len(evs)].axis \in StickAxes
           /\ SlotOf(post, evs[Len(evs)].id) # None
        \/ /\ t = "unmapped"
           /\ \E i \in 1 .. Len(evs) :
                 /\ Unmapped(evs[i])
                 /\ SlotOf(pre, evs[i].id) # None
        \/ /\ t = "edge"
           /\ evs # <<>>
           /\ evs[Len(evs)].type = "AxisChanged"
           /\ evs[Len(evs)].axis \in StickAxes
           /\ AtEdge(post, evs[Len(evs)])
        \/ /\ t = "rewritten"
           /\ \E i, j \in 1 .. Len(evs) :
                 /\ i < j
                 /\ evs[i].type = "AxisChanged"
                 /\ evs[j].type = "AxisChanged"
                 /\ evs[i].id = evs[j].id
                 /\ evs[i].axis = evs[j].axis
                 /\ evs[i].axis \in StickAxes
                 /\ evs[i].value # evs[j].value
                 /\ SlotOf(post, evs[i].id) # None}

\* ----------------------------------------------------------------- actions

\* The state after new() with a backend whose queue holds evs and whose
\* device list is devices.
InitWith(evs, devices) ==
    LET s == new(evs, devices)
    IN  /\ gamepads = s.gamepads
        /\ gilrs_gamepad_ids = s.gilrs_gamepad_ids
        /\ num_connected_pads = s.num_connected_pads
        /\ deadzones = s.deadzones
        /\ playing_ff_effects = s.playing_ff_effects
        /\ now_ms = 0
        /\ op = "new"
        /\ tags = {}
        /\ scenario = "none"
        /\ queue = <<>>
        /\ ingested = <<>>

\* The backend lists the devices 0 .. d - 1, all connected but possibly the
\* last; its queue is empty or holds a Connected event for each of them.
InitDevices(D, info) ==
    \E d \in D, last \in BOOLEAN, queued \in BOOLEAN :
        InitWith(IF queued
                 THEN [i \in 1 .. d |-> Connected(i - 1, info)]
                 ELSE <<>>,
                 [i \in 1 .. d |-> <<i - 1, i < d \/ last>>])

\* poll() on a backend queue that holds evs.
Poll(evs) ==
    /\ LET s == poll(Self, evs)
       IN  /\ gamepads' = s.gamepads
           /\ gilrs_gamepad_ids' = s.gilrs_gamepad_ids
           /\ num_connected_pads' = s.num_connected_pads
           /\ deadzones' = s.deadzones
           /\ playing_ff_effects' = s.playing_ff_effects
           /\ scenario' = Track(scenario, evs, s)
           /\ tags' = Met(Self, evs, s)
    /\ op' = "poll"
    /\ UNCHANGED <<now_ms, queue, ingested>>

\* The backend queues the events evs while no poll() is running.
Deliver(evs) ==
    /\ op # "polling"
    /\ queue = <<>>
    /\ evs # <<>>
    /\ queue' = evs
    /\ op' = "deliver"
    /\ UNCHANGED <<gamepads, gilrs_gamepad_ids, num_connected_pads, deadzones,
                   playing_ff_effects, now_ms, tags, scenario, ingested>>

\* poll() is entered: the first loop clears the just-pressed masks.
PollBegin ==
    /\ op # "polling"
    /\ gamepads' = ClearJustPressed(Self).gamepads
    /\ ingested' = <<>>
    /\ op' = "polling"
    /\ UNCHANGED <<gilrs_gamepad_ids, num_connected_pads, deadzones,
                   playing_ff_effects, now_ms, tags, scenario, queue>>

\* One iteration of the while loop of poll(): next_event() gave Some(event).
PollStep ==
    /\ op = "polling"
    /\ queue # <<>>
    /\ LET r == next_event(queue)
           s == Ingest(Self, r.event)
       IN  /\ gamepads' = s.gamepads
           /\ gilrs_gamepad_ids' = s.gilrs_gamepad_ids
           /\ num_connected_pads' = s.num_connected_pads
           /\ deadzones' = s.deadzones
           /\ playing_ff_effects' = s.playing_ff_effects
           /\ queue' = r.rest
           /\ ingested' = Append(ingested, r.event)
    /\ UNCHANGED <<now_ms, op, tags, scenario>>

\* next_event() gave None: the loop ends and poll() returns.
PollEnd ==
    /\ op = "polling"
    /\ queue = <<>>
    /\ op' = "poll"
    /\ UNCHANGED <<gamepads, gilrs_gamepad_ids, num_connected_pads, deadzones,
                   playing_ff_effects, now_ms, tags, scenario, queue, ingested>>

\* rumble() at the current time.
Rumble(gamepad_id, duration_ms, start_delay_ms, strong, weak, accepted) ==
    /\ Len(playing_ff_effects) < MaxEffects
    /\ accepted => gilrs_gamepad_ids[gamepad_id] # USIZE_MAX
    /\ LET s == rumble(Self, now_ms, gamepad_id, duration_ms, start_delay_ms, strong, weak, accepted)
       IN  /\ gamepads' = s.gamepads
           /\ gilrs_gamepad_ids' = s.gilrs_gamepad_ids
           /\ num_connected_pads' = s.num_connected_pads
           /\ deadzones' = s.deadzones
           /\ playing_ff_effects' = s.playing_ff_effects
    /\ op' = "rumble"
    /\ UNCHANGED <<queue, ingested, now_ms, tags, scenario>>

\* The system clock advances.
Tick ==
    /\ now_ms < MaxTime
    /\ now_ms' = now_ms + 1
    /\ op' = "tick"
    /\ UNCHANGED <<queue, ingested, gamepads, gilrs_gamepad_ids, num_connected_pads, deadzones,
                   playing_ff_effects, tags, scenario>>

\* The read-only calls between two polls: get(), all() and the accessors of
\* the pads they return take &self and leave every field as it is.
Query(gamepad_id) ==
    /\ Len(get(Self, gamepad_id)) <= Len(all(Self))
    /\ op' = "query"
    /\ UNCHANGED <<queue, ingested, gamepads, gilrs_gamepad_ids, num_connected_pads, deadzones,
                   playing_ff_effects, now_ms, tags, scenario>>

\* on_event() with an event of the window system.
OnEvent(event) ==
    /\ LET s == on_event(Self, event)
       IN  /\ gamepads' = s.gamepads
           /\ gilrs_gamepad_ids' = s.gilrs_gamepad_ids
           /\ num_connected_pads' = s.num_connected_pads
           /\ deadzones' = s.deadzones
           /\ playing_ff_effects' = s.playing_ff_effects
    /\ op' = event.type
    /\ UNCHANGED <<queue, ingested, now_ms, tags, scenario>>

\* rumble_android(): the model keeps the combined vibration the host's
\* vibrator manager received last in playing_ff_effects.
RumbleAndroid(duration_ms, strong, weak, num_vibrators) ==
    /\ playing_ff_effects' =
          rumble_android(duration_ms, strong, weak, num_vibrators)
    /\ tags' = {t \in {"strong", "weak"} :
                  \/ t = "strong" /\ strong > 0
                  \/ t = "weak" /\ weak > 0}
    /\ op' = "rumble"
    /\ UNCHANGED <<queue, ingested, gamepads, gilrs_gamepad_ids, num_connected_pads, deadzones,
                   now_ms, scenario>>

\* ---------------------------------------------------------- specifications

FewDevices == 0 .. (FewHandles - 1)

\* Spec: the buttons and the connection of a few devices.  The events of one
\* handle: the connection and button events, with one mapped and one
\* unmapped native button, an event of an axis that is no stick axis, and an
\* event type poll() does not match.
Events(h) ==
    {Connected(h, Uniform(UnknownDeadzone)), Disconnected(h),
     ButtonPressed(h, "South"), ButtonReleased(h, "South"),
     ButtonPressed(h, "C"), AxisChanged(h, "LeftZ", Scale), ButtonChanged(h)}

Init == InitDevices(0 .. FewHandles, Uniform(Deadzone(1)))

SpecBatches(n) == Batches(UNION {Events(h) : h \in FewDevices}, n)

Next == \E evs \in SpecBatches(num_connected_pads) : Poll(evs)

Spec == Init /\ [][Next]_vars

\* SpecSlots: the slot table up to and beyond its capacity.  The events of
\* one poll address the handles in focus.
SlotEvents(h) ==
    {Connected(h, Uniform(UnknownDeadzone)), Disconnected(h)}
    \cup (IF h = WatchedHandle \/ h >= MAX_GAMEPADS
          THEN {ButtonPressed(h, "South")}
          ELSE {})
    \cup (IF h >= MAX_GAMEPADS
          THEN {ButtonReleased(h, "South"), AxisChanged(h, "LeftStickX", Scale)}
          ELSE {})

InitSlots == InitDevices(0 .. MaxInitialDevices, Uniform(UnknownDeadzone))

SlotBatches(n) == Batches(UNION {SlotEvents(h) : h \in Focus(n) \cup Focus(n + 1)}, n)

NextSlots == \E evs \in SlotBatches(num_connected_pads) : Poll(evs)

SpecSlots == InitSlots /\ [][NextSlots]_vars

\* SpecAxis: the calibration of the axes of one device.
Values == (-Scale) .. Scale

AxisEvents(h) ==
    {Connected(h, info) : info \in Infos}
    \cup {AxisChanged(h, axis, v) :
            axis \in {"LeftStickX", "RightStickX", "LeftZ"}, v \in Values}

\* The backend's answer for the devices it lists when new() runs.
ListedInfo == Uniform(Deadzone(1))

InitAxis == InitDevices(0 .. 1, ListedInfo)

NextAxis ==
    \E evs \in Batches(AxisEvents(WatchedHandle), num_connected_pads) : Poll(evs)

SpecAxis == InitAxis /\ [][NextAxis]_vars

\* SpecRange: the calibration of the axes of one device whose backend
\* reports no deadzone of 1.0 or more.
SafeInfos ==
    {info \in Infos : \A a \in StickAxes : info[a].deadzone < Scale}

RangeEvents(h) ==
    {Connected(h, info) : info \in SafeInfos}
    \cup {AxisChanged(h, axis, v) :
            axis \in {"LeftStickX", "RightStickX", "LeftZ"}, v \in Values}

InitRange == InitDevices(0 .. 1, Uniform(Deadzone(1)))

NextRange ==
    \E evs \in Batches(RangeEvents(WatchedHandle), num_connected_pads) : Poll(evs)

SpecRange == InitRange /\ [][NextRange]_vars

\* SpecButtons: the buttons of one device, with native buttons from both
\* ends and the middle of the enumeration.
SomeButtons == {"South", "North", "Select", "DPadRight", "Mode"}

ButtonEvents(h) ==
    {Connected(h, Uniform(UnknownDeadzone)), Disconnected(h)}
    \cup {ButtonPressed(h, button) : button \in SomeButtons}
    \cup {ButtonReleased(h, button) : button \in SomeButtons}

InitButtons == InitDevices(0 .. 1, Uniform(UnknownDeadzone))

NextButtons ==
    \E evs \in Batches(ButtonEvents(WatchedHandle), num_connected_pads) : Poll(evs)

SpecButtons == InitButtons /\ [][NextButtons]_vars

\* SpecNew: construction with a backend that starts or fails to start, and
\* the polls of the instance when there is one.
InitNew ==
    \E started \in BOOLEAN, d \in 0 .. FewHandles, queued \in BOOLEAN :
        LET evs == IF queued
                   THEN [i \in 1 .. d |-> Connected(i - 1, Uniform(UnknownDeadzone))]
                   ELSE <<>>
            devices == [i \in 1 .. d |-> <<i - 1, TRUE>>]
            r == new_or_abort(started, evs, devices)
        IN  IF r # <<>>
            THEN InitWith(evs, devices)
            ELSE /\ gamepads = <<>>
                 /\ gilrs_gamepad_ids = <<>>
                 /\ num_connected_pads = 0
                 /\ deadzones = <<>>
                 /\ playing_ff_effects = <<>>
                 /\ now_ms = 0
                 /\ op = "abort"
                 /\ tags = {}
                 /\ scenario = "none"
                 /\ queue = <<>>
                 /\ ingested = <<>>

\* A panic in new() leaves no value to call poll() on.
NextNew ==
    /\ op # "abort"
    /\ \E evs \in SpecBatches(num_connected_pads) : Poll(evs)

SpecNew == InitNew /\ [][NextNew]_vars

\* SpecHaptic: rumble requests, the clock and the queries between the polls
\* of one device.
HapticEvents(h) ==
    {Connected(h, Uniform(UnknownDeadzone)), Disconnected(h),
     ButtonPressed(h, "South")}

InitHaptic == InitDevices(0 .. 1, Uniform(UnknownDeadzone))

NextHaptic ==
    \/ \E evs \in Batches(HapticEvents(WatchedHandle), num_connected_pads) :
          Poll(evs)
    \/ \E gamepad_id \in 0 .. 1, duration_ms \in 1 .. MaxDuration,
          start_delay_ms \in 0 .. MaxDelay, accepted \in BOOLEAN :
          Rumble(gamepad_id, duration_ms, start_delay_ms, Scale, 1, accepted)
    \/ Tick
    \/ \E gamepad_id \in 0 .. 1 : Query(gamepad_id)

SpecHaptic == InitHaptic /\ [][NextHaptic]_vars

\* SpecWeb: the snapshot adapter.  The host's list has an entry for index
\* 0, one for index 1 and one for index MAX_GAMEPADS, each null or a
\* gamepad; the gamepad of index 0 may report five axes.
HostButtons == [1 .. MaxHostButtons -> BOOLEAN]

HostEntries(index) ==
    {Null}
    \cup {HostPad(index, c, b, a) :
            c \in BOOLEAN,
            b \in IF index = 0 THEN HostButtons
                  ELSE {[k \in 1 .. MaxHostButtons |-> k = 1]},
            a \in IF index = 0
                  THEN {<<>>, <<Scale, Scale>>, [k \in 1 .. 5 |-> 1]}
                  ELSE {<<>>}}

Snapshots ==
    {<<a, b, c>> : a \in HostEntries(0), b \in HostEntries(1),
                   c \in HostEntries(MAX_GAMEPADS)}

\* poll() (wasm-bindgen) with the host's list snapshot; the fields of the
\* event-stream adapter do not exist in this build and stay as they are.
PollWasm(snapshot) ==
    /\ op # "panic"
    /\ LET r == poll_wasm(gamepads, snapshot)
       IN  /\ gamepads' = r.gamepads
           /\ op' = IF r.panicked THEN "panic" ELSE "poll"
    /\ UNCHANGED <<queue, ingested, gilrs_gamepad_ids, num_connected_pads, deadzones,
                   playing_ff_effects, now_ms, tags, scenario>>

\* new() (wasm-bindgen): the struct literal, then poll().
InitWeb ==
    \E snapshot \in Snapshots :
        LET r == poll_wasm(WasmGamepads, snapshot)
        IN  /\ gamepads = r.gamepads
            /\ op = IF r.panicked THEN "panic" ELSE "new"
            /\ gilrs_gamepad_ids = Empty.gilrs_gamepad_ids
            /\ num_connected_pads = 0
            /\ deadzones = Empty.deadzones
            /\ playing_ff_effects = <<>>
            /\ now_ms = 0
            /\ tags = {}
            /\ scenario = "none"
            /\ queue = <<>>
            /\ ingested = <<>>

NextWeb == \E snapshot \in Snapshots : PollWasm(snapshot)

SpecWeb == InitWeb /\ [][NextWeb]_vars

\* SpecOrder: the order of the events within one poll, for one device.
OrderInfos == {Uniform(Deadzone(1)), Uniform(UnknownDeadzone)}

OrderAxes == {"LeftStickY"}

OrderEvents(h) ==
    {Connected(h, info) : info \in OrderInfos}
    \cup {Disconnected(h), ButtonPressed(h, "South"), ButtonReleased(h, "South")}
    \cup {AxisChanged(h, axis, v) : axis \in OrderAxes, v \in {-Scale, 1, Scale}}

InitOrder == InitDevices(0 .. 1, Uniform(Deadzone(1)))

OrderBatches(n) == Batches(OrderEvents(WatchedHandle), n)

NextOrder == \E evs \in OrderBatches(num_connected_pads) : Poll(evs)

SpecOrder == InitOrder /\ [][NextOrder]_vars

\* SpecZones: the deadzone tables of a few devices under connection and axis
\* events, rumble requests and queries.
ZoneEvents(h) ==
    {Connected(h, Uniform(Deadzone(1))), Connected(h, Uniform(UnknownDeadzone)),
     Disconnected(h), AxisChanged(h, "LeftStickX", Scale)}

InitZones == InitDevices(0 .. FewHandles, Uniform(Deadzone(1)))

ZoneBatches(n) == Batches(UNION {ZoneEvents(h) : h \in FewDevices}, n)

NextZones ==
    \/ \E evs \in ZoneBatches(num_connected_pads) : Poll(evs)
    \/ \E accepted \in BOOLEAN : Rumble(0, 1, 0, Scale, 1, accepted)
    \/ \E gamepad_id \in FewDevices : Query(gamepad_id)

SpecZones == InitZones /\ [][NextZones]_vars

\* SpecPurge: the purge loop of rumble() on any list of live effects, at any
\* time.  The effects are told apart by a number; the loop reads the second
\* component of an entry only.
LiveLists ==
    UNION {{[i \in 1 .. n |-> [effect |-> i, throw_away_at |-> ts[i]]] :
               ts \in [1 .. n -> 0 .. MaxTime]} :
             n \in 0 .. MaxList}

\* The purge loop of a rumble() call issued at the time now.
PurgeAt(now) ==
    /\ now >= now_ms
    /\ now_ms' = now
    /\ playing_ff_effects' =
          Purge(playing_ff_effects, now, Len(playing_ff_effects))
    /\ tags' = {t \in {"purged", "moved"} :
                  \/ /\ t = "purged"
                     /\ Len(playing_ff_effects') < Len(playing_ff_effects)
                  \/ /\ t = "moved"
                     /\ \E i \in 1 .. Len(playing_ff_effects') :
                           playing_ff_effects'[i] # playing_ff_effects[i]}
    /\ op' = "purge"
    /\ UNCHANGED <<queue, ingested, gamepads, gilrs_gamepad_ids, num_connected_pads, deadzones,
                   scenario>>

InitPurge ==
    /\ gamepads = Empty.gamepads
    /\ gilrs_gamepad_ids = Empty.gilrs_gamepad_ids
    /\ num_connected_pads = 0
    /\ deadzones = Empty.deadzones
    /\ playing_ff_effects \in LiveLists
    /\ now_ms = 0
    /\ op = "new"
    /\ tags = {}
    /\ scenario = "none"
    /\ queue = <<>>
    /\ ingested = <<>>

NextPurge == \E now \in 0 .. (MaxTime + 1) : PurgeAt(now)

SpecPurge == InitPurge /\ [][NextPurge]_vars

\* SpecMagnitude: rumble requests of every magnitude of the grid for one
\* device, and the clock.
NextMagnitude ==
    \/ \E strong \in 0 .. Scale, weak \in 0 .. Scale :
          Rumble(0, 1, 0, strong, weak, TRUE)
    \/ Tick

SpecMagnitude == InitHaptic /\ [][NextMagnitude]_vars

\* SpecRaw: the raw-input adapter with one device that sends every kind of
\* event and a second one that sends an idle axis update or an unmapped key.
RawValues ==
    {<<v0, v1, a, 0, 0, 0>> : v0 \in {-Scale, 0, 1}, v1 \in {-Scale, 0, 1}, a \in {0, Scale}}

RawEvents ==
    {AxisUpdate(WatchedHandle, values) : values \in RawValues}
    \cup {KeyboardInput(WatchedHandle, scancode, pressed) :
             scancode \in {19, 96, 110, None}, pressed \in BOOLEAN}
    \cup {AxisUpdate(WatchedHandle + 1, <<0, 0, 0, 0, 0, 0>>),
          KeyboardInput(WatchedHandle + 1, 110, TRUE), Touch}

InitRaw ==
    /\ gamepads = Empty.gamepads
    /\ gilrs_gamepad_ids = Empty.gilrs_gamepad_ids
    /\ num_connected_pads = 0
    /\ deadzones = Empty.deadzones
    /\ playing_ff_effects = <<>>
    /\ now_ms = 0
    /\ op = "new"
    /\ tags = {}
    /\ scenario = "none"
    /\ queue = <<>>
    /\ ingested = <<>>

NextRaw == \E event \in RawEvents : OnEvent(event)

SpecRaw == InitRaw /\ [][NextRaw]_vars

\* SpecVibrate: the rumble requests of the raw-input adapter between key
\* events of one device.
VibrateEvents ==
    {KeyboardInput(WatchedHandle, scancode, pressed) :
        scancode \in {96, 97}, pressed \in BOOLEAN}

NextVibrate ==
    \/ \E event \in VibrateEvents : OnEvent(event)
    \/ \E duration_ms \in 1 .. MaxDuration, strong \in 0 .. Scale,
          weak \in 0 .. Scale, num_vibrators \in 1 .. 2 :
          RumbleAndroid(duration_ms, strong, weak, num_vibrators)

SpecVibrate == InitRaw /\ [][NextVibrate]_vars

\* SpecDrain: poll() step by step, one iteration of its loop at a time, on
\* the queue the backend has filled for one device.  The loop runs on the
\* caller's thread, so an iteration that can be taken is taken.
DrainEvents(h) ==
    {Connected(h, Uniform(UnknownDeadzone)), Disconnected(h),
     ButtonPressed(h, "South"), ButtonReleased(h, "South")}

InitDrain == InitDevices(0 .. 1, Uniform(UnknownDeadzone))

NextDrain ==
    \/ \E evs \in Batches(DrainEvents(WatchedHandle), num_connected_pads) :
          Deliver(evs)
    \/ PollBegin
    \/ PollStep
    \/ PollEnd

SpecDrain ==
    InitDrain /\ [][NextDrain]_vars /\ WF_vars(PollStep) /\ WF_vars(PollEnd)

\* SpecPair: two devices with a button, a calibrated axis and their
\* connection events.
PairEvents(h) ==
    {Connected(h, Uniform(Deadzone(1))), Disconnected(h),
     ButtonPressed(h, "South"), AxisChanged(h, "LeftStickX", Scale)}

InitPair == InitDevices(0 .. FewHandles, Uniform(UnknownDeadzone))

PairBatches(n) == Batches(UNION {PairEvents(h) : h \in FewDevices}, n)

NextPair == \E evs \in PairBatches(num_connected_pads) : Poll(evs)

SpecPair == InitPair /\ [][NextPair]_vars

\* ------------------------------------------------------------------ claims

Occupied(self) == {i \in Slots : self.gilrs_gamepad_ids[i] # USIZE_MAX}

\* The pad of the watched handle, once it has a slot.
WatchedPad == gamepads[SlotOf(Self, WatchedHandle)]

WatchedLogical == from_gilrs(WatchedButton)

\* C1: every handle is held by at most one slot, and a handle that has a slot
\* keeps it over every step: find_or_insert returns the same index for it
\* afterwards and claims no further slot, also when the step ingests a
\* Disconnected and then a Connected event for the handle.  A poll leaves
\* the handle of one of its events without a slot only when 8 other handles
\* hold the 8 slots.
C1_StableSlot ==
    [][/\ \A h \in Handles :
             /\ Cardinality({i \in Slots : gilrs_gamepad_ids'[i] = h}) <= 1
             /\ SlotOf(Self, h) # None =>
                   /\ find_or_insert(Self', h).idx = SlotOf(Self, h)
                   /\ find_or_insert(Self', h).self = Self'
                   /\ gamepads'[SlotOf(Self, h)].id = SlotOf(Self, h)
       /\ "dropped" \in tags' =>
             Cardinality({gilrs_gamepad_ids'[i] : i \in Slots} \ {USIZE_MAX})
                = MAX_GAMEPADS]_vars

\* C1 witness: the last poll disconnected and reconnected a handle that had a
\* slot, several slots are claimed, and every claimed slot still holds the
\* handle it was claimed for.
C1_Witness ==
    /\ "reconnected" \in tags
    /\ num_connected_pads >= 2
    /\ \A i \in Occupied(Self) : gilrs_gamepad_ids[i] = i

\* C2: with all 8 slots occupied, an event of any of the five types whose
\* handle has no slot changes nothing, and a poll leaves the state it would
\* leave with those events taken out of the batch.
C2_FullTableDiscards ==
    num_connected_pads = MAX_GAMEPADS =>
        /\ \A h \in Handles \ {gilrs_gamepad_ids[i] : i \in Slots} :
              \A ev \in SlotEvents(h) \cup Events(h) \cup AxisEvents(h) :
                  Ingest(Self, ev) = Self
        /\ \A evs \in SlotBatches(num_connected_pads) :
              LET known(ev) == SlotOf(Self, ev.id) # None
              IN  poll(Self, evs) = poll(Self, SelectSeq(evs, known))

\* C2 witness: a poll has met an event for a handle without a slot while the
\* table was full.
C2_Witness ==
    /\ "dropped" \in tags
    /\ num_connected_pads = MAX_GAMEPADS
    /\ Cardinality(Occupied(Self)) = MAX_GAMEPADS

\* C3: over every step an occupied slot keeps its handle, and the number of
\* occupied slots and num_connected_pads do not decrease.
C3_SlotsNeverFreed ==
    [][/\ \A i \in Occupied(Self) : gilrs_gamepad_ids'[i] = gilrs_gamepad_ids[i]
       /\ Cardinality(Occupied(Self')) >= Cardinality(Occupied(Self))
       /\ num_connected_pads' >= num_connected_pads]_vars

\* C3 witness: the last poll ingested a Disconnected event for a handle that
\* has a slot, and a slot is occupied while its pad is not connected.
C3_Witness ==
    /\ "disconnected" \in tags
    /\ \E i \in Occupied(Self) : ~gamepads[i].connected

\* C4: a poll that ingests a press of a mapped button b for a handle and then
\* a release of it (no press after it) leaves b just pressed and not
\* currently pressed; a poll that ingests no press of b leaves b not just
\* pressed, in particular the poll after such a tap.
C4_TapWithinOnePoll ==
    /\ scenario = "tap" =>
          /\ is_just_pressed(WatchedPad, WatchedLogical)
          /\ ~is_currently_pressed(WatchedPad, WatchedLogical)
    /\ scenario = "tapped" => ~is_just_pressed(WatchedPad, WatchedLogical)
    /\ \A evs \in SpecBatches(num_connected_pads) :
          LET post == poll(Self, evs)
          IN  \A h \in FewDevices :
                 SlotOf(post, h) # None =>
                    LET pad == post.gamepads[SlotOf(post, h)]
                    IN  /\ Tap(evs, h, WatchedButton) =>
                              /\ is_just_pressed(pad, WatchedLogical)
                              /\ ~is_currently_pressed(pad, WatchedLogical)
                        /\ NoPress(evs, h, WatchedButton) =>
                              ~is_just_pressed(pad, WatchedLogical)

\* C4 witness: a tap in one poll, then a poll without a press: the button is
\* no longer just pressed.
C4_Witness ==
    /\ scenario = "tapped"
    /\ ~is_just_pressed(WatchedPad, WatchedLogical)
    /\ ~is_currently_pressed(WatchedPad, WatchedLogical)

\* C5: after a poll that delivers only a press of b to a connected slot, b is
\* just pressed and currently pressed; after following polls without events
\* for the slot it is currently pressed and not just pressed; after a later
\* poll that delivers only a release of b it is neither.
C5_PressHoldRelease ==
    /\ scenario = "pressed" =>
          /\ is_just_pressed(WatchedPad, WatchedLogical)
          /\ is_currently_pressed(WatchedPad, WatchedLogical)
    /\ scenario = "held" =>
          /\ ~is_just_pressed(WatchedPad, WatchedLogical)
          /\ is_currently_pressed(WatchedPad, WatchedLogical)
    /\ scenario = "released" =>
          /\ ~is_just_pressed(WatchedPad, WatchedLogical)
          /\ ~is_currently_pressed(WatchedPad, WatchedLogical)
    /\ \A evs \in SpecBatches(num_connected_pads) :
          LET post == poll(Self, evs)
          IN  \A h \in FewDevices :
                 SlotOf(post, h) # None =>
                    LET pad == post.gamepads[SlotOf(post, h)]
                    IN  /\ PressOnly(evs, h, WatchedButton) =>
                              /\ is_just_pressed(pad, WatchedLogical)
                              /\ is_currently_pressed(pad, WatchedLogical)
                        /\ Quiet(evs, h) =>
                              /\ ~is_just_pressed(pad, WatchedLogical)
                              /\ is_currently_pressed(pad, WatchedLogical)
                                 = is_currently_pressed(
                                      gamepads[SlotOf(post, h)], WatchedLogical)
                        /\ ReleaseOnly(evs, h, WatchedButton) =>
                              /\ ~is_just_pressed(pad, WatchedLogical)
                              /\ ~is_currently_pressed(pad, WatchedLogical)

\* C5 witness: the press, hold and release sequence has run to its end.
C5_Witness ==
    /\ scenario = "released"
    /\ gamepads[SlotOf(Self, WatchedHandle)].connected
    /\ all_currently_pressed(WatchedPad) = <<>>

\* The bit positions the 17 discriminants use.
ButtonBits == 0 .. (Len(ButtonAll) - 1)

C7_AllAndGet ==
    LET a == all(Self)
    IN  /\ \A k \in 1 .. Len(a) :
              /\ a[k].id \in Slots
              /\ a[k] = gamepads[a[k].id]
              /\ a[k].connected
        /\ \A k \in 1 .. (Len(a) - 1) : a[k].id < a[k + 1].id
        /\ {a[k].id : k \in 1 .. Len(a)} = {i \in Slots : gamepads[i].connected}
        /\ \A i \in Slots :
              /\ gamepads[i].id = i
              /\ get(Self, i) = IF gamepads[i].connected THEN <<gamepads[i]>> ELSE <<>>
              /\ get(Self, i) # <<>> <=> \E k \in 1 .. Len(a) : a[k].id = i

\* C7 witness: slot 0 is occupied and not connected, slot 1 is connected:
\* all() yields the pad of slot 1 only.
C7_Witness ==
    /\ op = "poll"
    /\ 0 \in Occupied(Self)
    /\ ~gamepads[0].connected
    /\ gamepads[1].connected
    /\ Len(all(Self)) = 1
    /\ all(Self)[1].id = 1

\* What the queries return: all(), get() of every id, and the buttons and
\* sticks of every pad.
Observed(self) ==
    [all |-> all(self),
     get |-> [i \in Slots |-> get(self, i)],
     pressed |-> [i \in Slots |-> all_currently_pressed(self.gamepads[i])],
     just |-> [i \in Slots |-> all_just_pressed(self.gamepads[i])],
     sticks |-> [i \in Slots |-> <<left_stick(self.gamepads[i]),
                                   right_stick(self.gamepads[i])>>]]

\* C8: a step that is not a poll (a rumble request, a query, the clock)
\* leaves every query result as it was.
C8_QueriesStable ==
    [][op' # "poll" => Observed(Self') = Observed(Self)]_vars

\* C8 witness: a rumble request has been accepted while a connected pad had a
\* button just pressed.
C8_Witness ==
    /\ op = "rumble"
    /\ playing_ff_effects # <<>>
    /\ \E i \in Slots :
          /\ gamepads[i].connected
          /\ all_just_pressed(gamepads[i]) # <<>>

\* Quotients <<num, den>> with the same finite value.
RatEq(p, q) == p[2] # 0 /\ q[2] # 0 /\ p[1] * q[2] = q[1] * p[2]

\* The sign of a number: -1, 0 or 1.
Sign(x) == IF x > 0 THEN 1 ELSE IF x < 0 THEN -1 ELSE 0

\* The axis value an AxisChanged(h, axis, v) event stores.
Stored(self, h, axis, v) ==
    Ingest(self, AxisChanged(h, axis, v))
        .gamepads[SlotOf(self, h)].axes[AxisIndex(axis)]

\* C9: an AxisChanged event with raw value v for a stick axis of a slot whose
\* deadzone d for it is in [0, 1) stores exactly 0 when |v| < d and
\* sign(v) * (|v| - d) / (1 - d) otherwise; with d = 0 it stores v.
C9_AxisNormalized ==
    \A h \in Handles : SlotOf(Self, h) # None =>
        \A axis \in StickAxes : \A v \in Values :
            LET d == deadzones[SlotOf(Self, h)][AxisIndex(axis)]
                x == Stored(Self, h, axis, v)
            IN  (0 <= d /\ d < Scale) =>
                   /\ Abs(v) < d => x = Zero
                   /\ Abs(v) >= d =>
                         RatEq(x, <<Sign(v) * (Abs(v) - d), Scale - d>>)
                   /\ d = 0 => RatEq(x, <<v, Scale>>)

\* C9 witness: the last poll ended with an AxisChanged event, and an axis
\* with a deadzone strictly between 0 and 1 holds a value that is not 0.
C9_Witness ==
    /\ "axis" \in tags
    /\ \E i \in Occupied(Self) : \E a \in AxisIdxs :
          /\ deadzones[i][a] > 0
          /\ deadzones[i][a] < Scale
          /\ gamepads[i].axes[a][1] # 0

\* C10 as stated: for v in [-1, 1] and 0 <= d < 1 the stored value is 0 if and
\* only if |v| < d.
C10_ZeroIffInside ==
    \A h \in Handles : SlotOf(Self, h) # None =>
        \A axis \in StickAxes : \A v \in Values :
            LET d == deadzones[SlotOf(Self, h)][AxisIndex(axis)]
                x == Stored(Self, h, axis, v)
            IN  (0 <= d /\ d < Scale) => (RatEq(x, Zero) <=> Abs(v) < d)

\* C10 amended: the stored value is 0 if and only if |v| <= d.
C10_ZeroIffNotOutside ==
    \A h \in Handles : SlotOf(Self, h) # None =>
        \A axis \in StickAxes : \A v \in Values :
            LET d == deadzones[SlotOf(Self, h)][AxisIndex(axis)]
                x == Stored(Self, h, axis, v)
            IN  (0 <= d /\ d < Scale) => (RatEq(x, Zero) <=> Abs(v) <= d)

\* C10 witness: the last poll ended with an AxisChanged event whose magnitude
\* is the deadzone of its axis, a deadzone strictly between 0 and 1, and the
\* axis holds 0.
C10_Witness ==
    /\ "edge" \in tags
    /\ \E i \in Occupied(Self) : \E a \in AxisIdxs :
          /\ deadzones[i][a] > 0
          /\ deadzones[i][a] < Scale
          /\ RatEq(gamepads[i].axes[a], Zero)

\* C11: the deadzone stored for every slot and axis is strictly below 1.0,
\* also after a Connected event of a device whose backend reports a deadzone
\* of 1.0 or more, so the divisor 1 - deadzone is not zero and every stored
\* axis value is finite.
C11_DeadzoneBelowOne ==
    \A i \in Slots : \A a \in AxisIdxs :
        /\ deadzones[i][a] < Scale
        /\ gamepads[i].axes[a][2] # 0

\* A stored axis value that is finite and lies in [-1, 1].
InRange(p) == p[2] > 0 /\ Abs(p[1]) <= p[2]

\* C12: with raw values in [-1, 1] and backend deadzones in [0, 1), each of
\* the four axis values of every slot lies in [-1, 1], as the stick accessors
\* return them.
C12_AxesInRange ==
    \A i \in Slots :
        /\ \A a \in AxisIdxs :
              /\ deadzones[i][a] >= 0
              /\ deadzones[i][a] < Scale
              /\ InRange(gamepads[i].axes[a])
        /\ \A k \in 1 .. 2 :
              /\ InRange(left_stick(gamepads[i])[k])
              /\ InRange(right_stick(gamepads[i])[k])

\* C12 witness: the last poll ended with an AxisChanged event, and an axis
\* with a deadzone strictly between 0 and 1 holds -1.
C12_Witness ==
    /\ "axis" \in tags
    /\ \E i \in Occupied(Self) : \E a \in AxisIdxs :
          /\ deadzones[i][a] > 0
          /\ deadzones[i][a] < Scale
          /\ gamepads[i].axes[a][2] > 0
          /\ gamepads[i].axes[a][1] = -gamepads[i].axes[a][2]

\* The pressed mask the host's list writes to slot i, as a sequence: empty
\* when the list holds no gamepad of index i.
Written(snapshot, i) ==
    LET at(e) == ~e.null /\ e.index = i
        found == SelectSeq(snapshot, at)
    IN  IF found = <<>>
        THEN <<>>
        ELSE <<PressedBits(found[Len(found)].buttons,
                           Len(found[Len(found)].buttons))>>

\* C13: after a poll of the snapshot adapter, a button is just pressed in a
\* slot exactly when the host's list wrote a pressed mask to the slot that
\* has the button's bit set while the slot's mask before the poll had it
\* clear; a list that writes the masks the slots already hold leaves no
\* button just pressed.
C13_JustPressedFromSnapshots ==
    \A snapshot \in Snapshots :
        LET r == poll_wasm(gamepads, snapshot)
        IN  ~r.panicked =>
               /\ \A i \in Slots : \A k \in 1 .. Len(ButtonAll) :
                     is_just_pressed_wasm(r.gamepads[i], ButtonAll[k])
                     <=> /\ Written(snapshot, i) # <<>>
                         /\ HasBit(Written(snapshot, i)[1], k - 1)
                         /\ ~HasBit(gamepads[i].pressed_bits, k - 1)
               /\ (\A i \in Slots :
                      r.gamepads[i].pressed_bits = gamepads[i].pressed_bits)
                  => \A i \in Slots : all_just_pressed_wasm(r.gamepads[i]) = <<>>

\* C13 witness: after a poll, slot 0 holds a button that was pressed before
\* the poll and is not just pressed, and one that is just pressed.
C13_Witness ==
    /\ op = "poll"
    /\ gamepads[0].last_pressed_bits = 1
    /\ gamepads[0].pressed_bits = 3
    /\ all_just_pressed_wasm(gamepads[0]) = <<ButtonAll[2]>>

\* How often the entry e is in the live-effect list.
Count(effects, e) == Cardinality({k \in 1 .. Len(effects) : effects[k] = e})

\* C14: a rumble request the backend accepts at time T with duration D and
\* start delay S adds one entry with expiry T + D + S to the live-effect list;
\* an entry of the list is still in it after every step but a rumble call
\* issued at or after its expiry: polls, queries and the clock remove nothing,
\* and a rumble call issued before the expiry keeps it.
C14_EffectKeptUntilExpiry ==
    /\ [](\A gamepad_id \in 0 .. 1, duration_ms \in 1 .. MaxDuration,
             start_delay_ms \in 0 .. MaxDelay :
             gilrs_gamepad_ids[gamepad_id] # USIZE_MAX =>
                LET post == rumble(Self, now_ms, gamepad_id, duration_ms,
                                   start_delay_ms, Scale, 1, TRUE)
                        .playing_ff_effects
                    added == post[Len(post)]
                    kept == {k \in 1 .. Len(playing_ff_effects) :
                               playing_ff_effects[k].throw_away_at >= now_ms}
                IN  /\ Len(post) = Cardinality(kept) + 1
                    /\ added.throw_away_at = now_ms + duration_ms + start_delay_ms
                    /\ added.effect.gamepad = gilrs_gamepad_ids[gamepad_id]
                    /\ Count(post, added)
                          = 1 + Cardinality({k \in kept :
                                               playing_ff_effects[k] = added}))
    /\ [][\A k \in 1 .. Len(playing_ff_effects) :
             (op' # "rumble" \/ playing_ff_effects[k].throw_away_at > now_ms)
             => Count(playing_ff_effects', playing_ff_effects[k])
                   >= Count(playing_ff_effects, playing_ff_effects[k])]_vars

\* C14 witness: the last step was a rumble call, and the list holds an
\* entry that was added at an earlier time and expires later.
C14_Witness ==
    /\ op = "rumble"
    /\ Len(playing_ff_effects) = 2
    /\ \E k \in 1 .. Len(playing_ff_effects) :
          LET e == playing_ff_effects[k]
          IN  /\ e.throw_away_at > now_ms
              /\ e.throw_away_at - e.effect.play_for - e.effect.after < now_ms

\* C15: after a rumble call issued at time now the live-effect list holds no
\* entry whose expiry is at or before now: the call has purged every entry
\* with expiry <= now, also one whose expiry is exactly now.
C15_PurgedAtExpiry ==
    [][op' = "rumble" =>
          \A k \in 1 .. Len(playing_ff_effects') :
              playing_ff_effects'[k].throw_away_at > now_ms']_vars

\* C16: a rumble request the backend rejects, for a slot with or without a
\* device, returns the state with no entry added to the live-effect list and
\* with the slots, the slot table and the deadzones as they were; no later
\* step that is not a rumble call adds an entry for it.
C16_RejectedRumbleDropped ==
    /\ [](\A gamepad_id \in Slots, duration_ms \in 1 .. MaxDuration,
             start_delay_ms \in 0 .. MaxDelay :
             LET post == rumble(Self, now_ms, gamepad_id, duration_ms,
                                start_delay_ms, Scale, 1, FALSE)
             IN  /\ post.gamepads = gamepads
                 /\ post.gilrs_gamepad_ids = gilrs_gamepad_ids
                 /\ post.num_connected_pads = num_connected_pads
                 /\ post.deadzones = deadzones
                 /\ Len(post.playing_ff_effects) <= Len(playing_ff_effects)
                 /\ \A k \in 1 .. Len(post.playing_ff_effects) :
                       Count(post.playing_ff_effects, post.playing_ff_effects[k])
                          <= Count(playing_ff_effects, post.playing_ff_effects[k]))
    /\ [][op' # "rumble" => playing_ff_effects' = playing_ff_effects]_vars

\* C16 witness: the last step was a rumble call that left the live-effect
\* list empty, so the backend rejected it, while one slot holds a connected
\* pad with a button pressed and the next slot holds no device.
C16_Witness ==
    /\ op = "rumble"
    /\ playing_ff_effects = <<>>
    /\ gamepads[0].connected
    /\ gamepads[0].pressed_bits # 0
    /\ gilrs_gamepad_ids[1] = USIZE_MAX

\* The host's list without its out-of-range part: gamepads with an index
\* outside the array are taken out, and of the axes of a gamepad the first
\* four are kept.
InRangePart(snapshot) ==
    LET fits(e) == e.null \/ e.index \in Slots
        trim(e) ==
            IF Len(e.axes) > 4
            THEN [e EXCEPT !.axes = SubSeq(e.axes, 1, 4)]
            ELSE e
        kept == SelectSeq(snapshot, fits)
    IN  [k \in 1 .. Len(kept) |-> trim(kept[k])]

\* C17: a poll of the snapshot adapter (wasm-bindgen) completes for every
\* list of the host, also one with a gamepad of index 8 or more or with more
\* than 4 axes, and leaves the slots as the list without its out-of-range
\* part leaves them.
C17_OutOfRangeIgnored ==
    /\ op # "panic"
    /\ \A snapshot \in Snapshots :
          LET r == poll_wasm(gamepads, snapshot)
          IN  /\ ~r.panicked
              /\ r.gamepads = poll_wasm(gamepads, InRangePart(snapshot)).gamepads

\* Native buttons without a logical button, and native axes that are no
\* stick axes.
UnmappedButtons == {"C", "Z", "Unknown"}

UnmappedAxes == {"LeftZ", "RightZ", "DPadX", "DPadY", "Unknown"}

\* C18: for a handle that has a slot, a ButtonPressed or ButtonReleased
\* event of a native button without a logical button and an AxisChanged
\* event of an axis that is no stick axis leave every slot, the slot table
\* and the deadzones as they are, and a poll leaves the state it would leave
\* without those events.
C18_UnmappedIgnored ==
    /\ \A h \in Handles : SlotOf(Self, h) # None =>
          /\ \A button \in UnmappedButtons :
                /\ Ingest(Self, ButtonPressed(h, button)) = Self
                /\ Ingest(Self, ButtonReleased(h, button)) = Self
          /\ \A axis \in UnmappedAxes : \A v \in Values :
                Ingest(Self, AxisChanged(h, axis, v)) = Self
    /\ \A evs \in SpecBatches(num_connected_pads) :
          LET mapped(ev) == ~(Unmapped(ev) /\ SlotOf(Self, ev.id) # None)
          IN  poll(Self, evs) = poll(Self, SelectSeq(evs, mapped))

\* C18 witness: the last poll ingested such an event for a handle that had
\* a slot, whose pad is connected and holds a pressed button.
C18_Witness ==
    /\ "unmapped" \in tags
    /\ \E i \in Occupied(Self) :
          /\ gamepads[i].connected
          /\ gamepads[i].pressed_bits # 0

\* A sequence of logical buttons that runs in enumeration order and holds
\* exactly the buttons of the set S, each once.
Lists(seq, S) ==
    /\ Len(seq) <= 17
    /\ Len(seq) = Cardinality(S)
    /\ {seq[k] : k \in 1 .. Len(seq)} = S
    /\ \A j, k \in 1 .. Len(seq) :
          j < k => Discriminant(seq[j]) < Discriminant(seq[k])

Buttons == {ButtonEnum[k] : k \in 1 .. Len(ButtonEnum)}

\* Masks with no bit, one bit and all 17 bits set.
SomeMasks == {0, Bit(17) - 1} \cup {Bit(b) : b \in 0 .. 16}

\* C19: all_currently_pressed and all_just_pressed yield, in the order
\* ActionDown .. Mode and each once, exactly the buttons for which
\* is_currently_pressed and is_just_pressed hold, at most 17 of them, in both
\* builds; the i-th button of Button::all() is the one bit i - 1 stands for.
C19_PressedListings ==
    /\ Len(ButtonAll) = 17
    /\ \A i \in 1 .. Len(ButtonAll) :
          /\ Discriminant(ButtonAll[i]) = i - 1
          /\ \A mask \in SomeMasks :
                LET pad == [gamepads[0] EXCEPT !.pressed_bits = mask,
                                               !.just_pressed_bits = mask]
                IN  /\ is_currently_pressed(pad, ButtonAll[i]) <=> HasBit(mask, i - 1)
                    /\ is_just_pressed(pad, ButtonAll[i]) <=> HasBit(mask, i - 1)
    /\ \A i \in Slots :
          /\ Lists(all_currently_pressed(gamepads[i]),
                   {b \in Buttons : is_currently_pressed(gamepads[i], b)})
          /\ Lists(all_just_pressed(gamepads[i]),
                   {b \in Buttons : is_just_pressed(gamepads[i], b)})
    /\ \A pressed \in SomeMasks, other \in SomeMasks :
          LET pad == [gamepads[0] EXCEPT !.pressed_bits = pressed,
                                         !.just_pressed_bits = other]
              wasm == [WasmGamepads[0] EXCEPT !.pressed_bits = pressed,
                                              !.last_pressed_bits = other]
          IN  /\ Lists(all_currently_pressed(pad),
                       {b \in Buttons : is_currently_pressed(pad, b)})
              /\ Lists(all_just_pressed(pad),
                       {b \in Buttons : is_just_pressed(pad, b)})
              /\ Lists(all_just_pressed_wasm(wasm),
                       {b \in Buttons : is_just_pressed_wasm(wasm, b)})

\* C19 witness: a pad holds the first, the fourth and the last button of the
\* enumeration, the last of them just pressed.
C19_Witness ==
    /\ op = "poll"
    /\ SlotOf(Self, WatchedHandle) # None
    /\ all_currently_pressed(WatchedPad) = <<"ActionDown", "ActionUp", "Mode">>
    /\ all_just_pressed(WatchedPad) = <<"Mode">>

\* C20: when the backend does not start, new() returns no Gamepads value,
\* whatever the backend's queue and device list hold: the construction ends
\* with no instance, not even the struct literal, and no operation follows;
\* when it starts, the instance new() returns has all 8 slots.
C20_NoInstanceWithoutBackend ==
    /\ [](/\ \A d \in 0 .. FewHandles, queued \in BOOLEAN :
                new_or_abort(FALSE,
                             IF queued
                             THEN [i \in 1 .. d |->
                                     Connected(i - 1, Uniform(UnknownDeadzone))]
                             ELSE <<>>,
                             [i \in 1 .. d |-> <<i - 1, TRUE>>]) = <<>>
          /\ op = "abort" =>
                /\ gamepads = <<>>
                /\ gilrs_gamepad_ids = <<>>
                /\ playing_ff_effects = <<>>
          /\ op # "abort" =>
                /\ DOMAIN gamepads = Slots
                /\ DOMAIN gilrs_gamepad_ids = Slots
                /\ \A i \in Slots : gamepads[i].id = i)
    /\ [][op # "abort" /\ op' # "abort"]_vars

\* C20 witness: the backend did not start and the construction was aborted.
C20_Witness ==
    /\ op = "abort"
    /\ gamepads = <<>>

\* The index of the last event of evs that lies in the set S, or 0.
LastIn(evs, S) ==
    LET I == {i \in 1 .. Len(evs) : evs[i] \in S}
    IN  IF I = {} THEN 0 ELSE CHOOSE i \in I : \A j \in I : j <= i

\* The deadzone of a stick axis of handle h in force when the k-th event of
\* evs is ingested, for devices whose backend knows a code for the axis: the
\* one of the last Connected event before it, else the one before the poll.
DeadzoneAt(pre, evs, k, h, axis) ==
    LET c == LastIn(SubSeq(evs, 1, k - 1), {Connected(h, info) : info \in OrderInfos})
    IN  IF c # 0
        THEN IF evs[c].info[axis].deadzone = None
             THEN 0
             ELSE evs[c].info[axis].deadzone
        ELSE IF SlotOf(pre, h) # None
             THEN pre.deadzones[SlotOf(pre, h)][AxisIndex(axis)]
             ELSE 0

\* C21: the state after a poll is the one of ingesting the queued events one
\* by one in delivery order: the last AxisChanged event for a slot and axis
\* determines the stored value, the last of the press and release events of
\* a button decides whether it is currently pressed (a release and then a
\* press leave it pressed), and the last of the Connected and Disconnected
\* events decides whether the slot is connected (a Disconnected and then a
\* Connected event leave it connected).
C21_DeliveryOrder ==
    \A evs \in OrderBatches(num_connected_pads) :
        LET h == WatchedHandle
            post == poll(Self, evs)
            slot == SlotOf(post, h)
            b == LastIn(evs, {ButtonPressed(h, "South"), ButtonReleased(h, "South")})
            c == LastIn(evs, {Disconnected(h)} \cup {Connected(h, info) : info \in OrderInfos})
        IN  slot # None =>
               /\ \A axis \in OrderAxes :
                     LET a == LastIn(evs, {AxisChanged(h, axis, v) : v \in Values})
                     IN  a # 0 =>
                            post.gamepads[slot].axes[AxisIndex(axis)]
                               = Normalize(evs[a].value, DeadzoneAt(Self, evs, a, h, axis))
               /\ b # 0 =>
                     (is_currently_pressed(post.gamepads[slot], from_gilrs("South"))
                        <=> evs[b].type = "ButtonPressed")
               /\ c # 0 =>
                     (post.gamepads[slot].connected <=> evs[c].type = "Connected")

\* C21 witness: the last poll ingested two AxisChanged events with different
\* values for one axis of the watched device, and the axis holds the
\* normalization of a value that is not 0.
C21_Witness ==
    /\ "rewritten" \in tags
    /\ SlotOf(Self, WatchedHandle) # None
    /\ \E axis \in OrderAxes : WatchedPad.axes[AxisIndex(axis)][1] # 0

\* C22: at the end of every poll the just-pressed mask of every slot,
\* connected or not, holds exactly the mapped buttons for which a
\* ButtonPressed event of that slot was ingested during this poll, whatever
\* the masks were before the poll.
C22_JustPressedThisPoll ==
    \A evs \in SpecBatches(num_connected_pads) :
        LET post == poll(Self, evs)
        IN  \A i \in Slots :
               /\ post.gamepads[i].just_pressed_bits < Bit(Len(ButtonAll))
               /\ \A b \in ButtonBits :
                     HasBit(post.gamepads[i].just_pressed_bits, b)
                        <=> \E k \in 1 .. Len(evs) :
                               /\ evs[k].type = "ButtonPressed"
                               /\ from_gilrs(evs[k].button) # "None"
                               /\ Discriminant(from_gilrs(evs[k].button)) = b
                               /\ SlotOf(post, evs[k].id) = i

\* C22 witness: after a poll the slot of the watched device is not connected,
\* holds a button as currently pressed and has a just-pressed mask that
\* differs from the currently-pressed mask and is not empty.
C22_Witness ==
    /\ op = "poll"
    /\ SlotOf(Self, WatchedHandle) # None
    /\ ~WatchedPad.connected
    /\ WatchedPad.just_pressed_bits # 0
    /\ WatchedPad.just_pressed_bits # WatchedPad.pressed_bits

\* C23: a Connected event stores at every axis index the backend's deadzone
\* of the native axis whose AxisChanged events are written to that index (0
\* when the backend knows none); in particular the deadzone applied to
\* rightX is the backend's deadzone of the right stick's x axis.
C23_DeadzoneOfSameAxis ==
    \A info \in Infos :
        LET post == Ingest(Self, Connected(WatchedHandle, info))
            slot == SlotOf(post, WatchedHandle)
        IN  slot # None =>
               \A axis \in StickAxes :
                  info[axis].axis_code =>
                     post.deadzones[slot][AxisIndex(axis)]
                        = IF info[axis].deadzone = None
                          THEN 0
                          ELSE info[axis].deadzone

\* The events of every type for the model's devices.
AnyEvents ==
    UNION {Events(h) \cup ZoneEvents(h) \cup {Connected(h, info) : info \in Infos} : h \in FewDevices}

\* C24: the deadzone table of a slot changes only while a Connected event
\* for the handle of that slot is processed: Disconnected, ButtonPressed,
\* ButtonReleased and AxisChanged events, rumble calls and queries change no
\* deadzone, and a Connected event for one handle changes the deadzones of
\* no other slot.
C24_DeadzonesOnlyOnConnected ==
    /\ [](/\ \A ev \in AnyEvents :
              LET post == Ingest(Self, ev)
              IN  \A i \in Slots :
                     (ev.type # "Connected" \/ SlotOf(post, ev.id) # i)
                        => post.deadzones[i] = deadzones[i]
          /\ \A evs \in ZoneBatches(num_connected_pads) :
                LET post == poll(Self, evs)
                IN  \A i \in Slots :
                       (\A k \in 1 .. Len(evs) :
                           evs[k].type # "Connected" \/ SlotOf(post, evs[k].id) # i)
                          => post.deadzones[i] = deadzones[i])
    /\ [][op' \in {"rumble", "query"} => deadzones' = deadzones]_vars

\* C24 witness: the last poll ingested a Disconnected event, and a slot that
\* is not connected holds a deadzone that is not 0 while another slot holds
\* the deadzone 0 for the same axis.
C24_Witness ==
    /\ op = "poll"
    /\ "disconnected" \in tags
    /\ \E i, j \in Occupied(Self) :
          /\ i # j
          /\ ~gamepads[i].connected
          /\ \E a \in AxisIdxs : deadzones[i][a] > 0 /\ deadzones[j][a] = 0

\* C25: an AxisChanged event for a handle that has no slot allocates no
\* slot: the slot table and the number of claimed slots stay as they are.
C25_AxisEventAllocatesNoSlot ==
    \A h \in Handles :
        SlotOf(Self, h) = None =>
           \A axis \in StickAxes \cup UnmappedAxes : \A v \in Values :
              LET post == Ingest(Self, AxisChanged(h, axis, v))
              IN  /\ post.gilrs_gamepad_ids = gilrs_gamepad_ids
                  /\ post.num_connected_pads = num_connected_pads

\* C26: a gamepad that new() registers as connected from the backend's device
\* list, with no Connected event ingested for it, has its per-axis deadzones
\* taken from the backend exactly as a Connected event takes them: ingesting
\* a Connected event for it would store the deadzones it already has.
C26_ListedDeviceDeadzones ==
    op = "new" =>
       \A h \in Handles :
          LET slot == SlotOf(Self, h)
          IN  (slot # None /\ gamepads[slot].connected) =>
                 deadzones[slot]
                    = Ingest(Self, Connected(h, ListedInfo)).deadzones[slot]

\* C27: for any list of live effects and any time, the purge loop leaves
\* exactly the effects that have not expired, each exactly once: it removes
\* every expired effect and neither drops nor duplicates one that has not
\* expired; their order may change.
C27_PurgeKeepsUnexpired ==
    [][op' = "purge" =>
          /\ \A i \in 1 .. Len(playing_ff_effects) :
                LET e == playing_ff_effects[i]
                IN  Count(playing_ff_effects', e)
                       = IF e.throw_away_at < now_ms'
                         THEN 0
                         ELSE Count(playing_ff_effects, e)
          /\ \A j \in 1 .. Len(playing_ff_effects') :
                Count(playing_ff_effects, playing_ff_effects'[j]) > 0]_vars

\* C27 witness: the purge loop removed an effect, moved another one to a new
\* position and left a list of two effects or more.
C27_Witness ==
    /\ op = "purge"
    /\ "purged" \in tags
    /\ "moved" \in tags
    /\ Len(playing_ff_effects) >= 2

\* C28: the list of live effects is changed by rumble calls only: polls,
\* get, all and the queries on the pads add and remove nothing, so an effect
\* that has expired stays in the list over any number of polls until the
\* next rumble call.
C28_OnlyRumbleChangesEffects ==
    /\ [](\A evs \in Batches(HapticEvents(WatchedHandle), num_connected_pads) :
              poll(Self, evs).playing_ff_effects = playing_ff_effects)
    /\ [][op' # "rumble" => playing_ff_effects' = playing_ff_effects]_vars

\* C28 witness: after a poll that ingested a Disconnected event the list
\* holds an effect whose expiry has passed.
C28_Witness ==
    /\ op = "poll"
    /\ "disconnected" \in tags
    /\ \E i \in 1 .. Len(playing_ff_effects) :
          playing_ff_effects[i].throw_away_at < now_ms

\* n is 65535 * k / den rounded to the nearest integer (a half rounds up).
Nearest(n, k, den) ==
    /\ 2 * (den * n - U16_MAX * k) <= den
    /\ 2 * (den * n - U16_MAX * k) > -den

\* C29: for a magnitude m in [0, 1] the native magnitude handed to the
\* backend is 65535 * m rounded to the nearest integer, not truncated: 0 for
\* m = 0, 65535 for m = 1, and always within 0 .. 65535.
C29_MagnitudeRounded ==
    /\ \A den \in 1 .. MaxDenominator : \A k \in 0 .. den :
          LET n == MagnitudeOf(k, den)
          IN  /\ n \in 0 .. U16_MAX
              /\ Nearest(n, k, den)
              /\ k = 0 => n = 0
              /\ k = den => n = U16_MAX
    /\ \A i \in 1 .. Len(playing_ff_effects) :
          LET e == playing_ff_effects[i].effect
          IN  /\ \E m \in 0 .. Scale : Nearest(e.strong, m, Scale)
              /\ \E m \in 0 .. Scale : Nearest(e.weak, m, Scale)
              /\ e.strong \in 0 .. U16_MAX
              /\ e.weak \in 0 .. U16_MAX

\* C29 witness: a rumble call has left an effect with the strong magnitude 0
\* and the weak magnitude 65535, and one whose weak magnitude is neither.
C29_Witness ==
    /\ op = "rumble"
    /\ \E i, j \in 1 .. Len(playing_ff_effects) :
          /\ playing_ff_effects[i].effect.strong = 0
          /\ playing_ff_effects[i].effect.weak = U16_MAX
          /\ playing_ff_effects[j].effect.weak \notin {0, U16_MAX}

\* C30: in the raw-input adapter, after an axis update with the raw values
\* (v0, v1, ..) for a device that has a slot, DPadLeft is currently pressed
\* if and only if v0 < 0 and DPadRight if and only if v0 > 0, DPadUp is
\* currently pressed if and only if v1 < 0 and DPadDown if and only if
\* v1 > 0; a value of 0 clears both bits of its pair.
C30_DPadFromFirstTwoValues ==
    \A h \in Handles :
        SlotOf(Self, h) # None =>
           \A values \in RawValues :
              LET pad == OnAxisUpdate(Self, h, values).gamepads[SlotOf(Self, h)]
              IN  /\ is_currently_pressed(pad, "DPadLeft") <=> values[1] < 0
                  /\ is_currently_pressed(pad, "DPadRight") <=> values[1] > 0
                  /\ is_currently_pressed(pad, "DPadUp") <=> values[2] < 0
                  /\ is_currently_pressed(pad, "DPadDown") <=> values[2] > 0

\* The D-pad buttons the AxisUpdate arm drives.
DPadButtons == {"DPadLeft", "DPadRight", "DPadUp", "DPadDown"}

\* C31: in the raw-input adapter the just-pressed bit of a button is set only
\* on a transition from released to pressed: once the masks of a tick have
\* been cleared, a key-down for a button that is already pressed, and an axis
\* update whose sign keeps a D-pad direction pressed, do not set the
\* just-pressed bit of that button again.
C31_JustPressedOnlyOnEdge ==
    \A h \in Handles :
        LET slot == SlotOf(Self, h)
            cleared == ClearJustPressed(Self)
        IN  slot # None =>
               /\ \A scancode \in {19, 96} :
                     is_currently_pressed(gamepads[slot], KeyButton(scancode)) =>
                        ~is_just_pressed(
                            on_event(cleared, KeyboardInput(h, scancode, TRUE)).gamepads[slot],
                            KeyButton(scancode))
               /\ \A values \in RawValues : \A button \in DPadButtons :
                     LET pad == on_event(cleared, AxisUpdate(h, values)).gamepads[slot]
                     IN  (/\ is_currently_pressed(gamepads[slot], button)
                          /\ is_currently_pressed(pad, button))
                            => ~is_just_pressed(pad, button)

\* C32: in the raw-input adapter a key event whose scancode is not in the
\* mapping table changes nothing: the masks, the axes, the connected flags,
\* the table of device ids and the number of claimed slots stay as they are,
\* also when the device has no slot yet.
C32_UnmappedKeyIgnored ==
    \A h \in Handles : \A pressed \in BOOLEAN :
        \A scancode \in {s \in 0 .. 120 : KeyButton(s) = "None"} :
            on_event(Self, KeyboardInput(h, scancode, pressed)) = Self

\* C33: in the snapshot adapter (wasm-bindgen) every poll overwrites all
\* slots from the host's current list: a slot whose device is not in the
\* list (its entry is null) is not connected after the poll.
C33_AbsentDeviceDisconnected ==
    op # "panic" =>
       \A snapshot \in Snapshots :
          LET r == poll_wasm(gamepads, snapshot)
          IN  ~r.panicked =>
                 \A i \in Slots :
                    (\A k \in 1 .. Len(snapshot) :
                        snapshot[k].null \/ snapshot[k].index # i)
                       => ~r.gamepads[i].connected

\* C34: a rumble request of the raw-input adapter applies the strong
\* magnitude to the vibrator of index 0 and the weak magnitude to the
\* vibrator of index 1, and adds no vibrator for a scaled magnitude of 0.
C34_StrongOnChannelZero ==
    /\ (op = "rumble" /\ playing_ff_effects # <<>>) =>
          LET added == playing_ff_effects[1].vibrators
          IN  /\ "strong" \in tags
                    <=> \E k \in 1 .. Len(added) : added[k].vibrator_idx = 0
              /\ "weak" \in tags
                    <=> \E k \in 1 .. Len(added) : added[k].vibrator_idx = 1
    /\ \A strong \in 0 .. Scale, weak \in 0 .. Scale, duration_ms \in 1 .. MaxDuration :
        LET sent == rumble_android(duration_ms, strong, weak, 2)
            added == sent[1].vibrators
        IN  /\ Len(sent) = 1
            /\ \A k \in 1 .. Len(added) :
                  /\ added[k].magnitude > 0
                  /\ added[k].vibrator_idx = 0 =>
                        added[k].magnitude = scale_magnitude(strong)
                  /\ added[k].vibrator_idx = 1 =>
                        added[k].magnitude = scale_magnitude(weak)
            /\ scale_magnitude(strong) > 0 =>
                  \E k \in 1 .. Len(added) : added[k].vibrator_idx = 0
            /\ scale_magnitude(weak) > 0 =>
                  \E k \in 1 .. Len(added) : added[k].vibrator_idx = 1

\* C35: every poll on a finite queue returns, and when it returns the queue
\* is empty and the events that were queued have been ingested once each in
\* their order: over the iterations the events taken followed by the events
\* left are the queue at entry, and the state the loop is heading for, the
\* one of draining what is left, stays the same.
C35_PollDrainsQueue ==
    /\ [][/\ op' = "polling" =>
               ingested' \o queue'
                  = (IF op = "polling" THEN ingested ELSE <<>>) \o queue
          /\ (op = "polling" /\ op' = "polling") =>
               Drain(Self', queue') = Drain(Self, queue)
          /\ (op = "polling" /\ op' = "poll") =>
               /\ queue' = <<>>
               /\ ingested' = ingested
               /\ Self' = Self]_vars
    /\ (op = "polling") ~> (op = "poll" /\ queue = <<>>)

\* C35 witness: a poll has returned after it took a full batch of events,
\* and the queue is empty.
C35_Witness ==
    /\ op = "poll"
    /\ queue = <<>>
    /\ Len(ingested) = MaxBatch
    /\ ingested[1] # ingested[MaxBatch]

\* C36: a Disconnected event changes only the connected flag of the slot of
\* its handle: the pressed mask, the axes and the deadzones are kept, so the
\* buttons held at the disconnect are reported as currently pressed again as
\* soon as a Connected event for the handle is ingested.
C36_DisconnectKeepsState ==
    \A h \in Handles :
        LET slot == SlotOf(Self, h)
        IN  slot # None =>
               /\ Ingest(Self, Disconnected(h))
                     = [Self EXCEPT !.gamepads[slot].connected = FALSE]
               /\ \A info \in OrderInfos :
                     LET back == Drain(Self, <<Disconnected(h), Connected(h, info)>>)
                     IN  /\ get(back, slot) # <<>>
                         /\ all_currently_pressed(get(back, slot)[1])
                               = all_currently_pressed(gamepads[slot])
                         /\ back.gamepads[slot].axes = gamepads[slot].axes

\* C36 witness: the last poll ingested a Disconnected and then a Connected
\* event for the watched device, which is connected and holds a button that
\* was pressed in an earlier poll.
C36_Witness ==
    /\ "reconnected" \in tags
    /\ SlotOf(Self, WatchedHandle) # None
    /\ WatchedPad.connected
    /\ all_currently_pressed(WatchedPad) # <<>>
    /\ WatchedPad.just_pressed_bits = 0

\* The slots all() returns after the state self.
Listed(self) == {all(self)[k].id : k \in 1 .. Len(all(self))}

\* C37: after construction the connected flag of a slot changes only when a
\* Connected or Disconnected event for the handle of that slot is ingested;
\* ButtonPressed, ButtonReleased and AxisChanged events update the masks and
\* the axes of a slot that is not connected and leave it not connected, so
\* that get() and all() do not return it.
C37_ConnectedOnlyByConnectionEvents ==
    /\ \A ev \in AnyEvents :
          LET post == Ingest(Self, ev)
              slot == SlotOf(post, ev.id)
          IN  /\ \A i \in Slots :
                    (ev.type \notin {"Connected", "Disconnected"} \/ slot # i)
                       => post.gamepads[i].connected = gamepads[i].connected
              /\ (slot # None /\ ~gamepads[slot].connected) =>
                    /\ ev.type = "ButtonPressed" /\ from_gilrs(ev.button) # "None" =>
                          is_currently_pressed(post.gamepads[slot], from_gilrs(ev.button))
                    /\ ev.type = "AxisChanged" /\ AxisIndex(ev.axis) # None =>
                          post.gamepads[slot].axes[AxisIndex(ev.axis)]
                             = Normalize(ev.value, post.deadzones[slot][AxisIndex(ev.axis)])
                    /\ ev.type \in {"ButtonPressed", "ButtonReleased", "AxisChanged"} =>
                          /\ get(post, slot) = <<>>
                          /\ slot \notin Listed(post)
    /\ \A evs \in SpecBatches(num_connected_pads) :
          LET post == poll(Self, evs)
          IN  \A i \in Slots :
                 (\A k \in 1 .. Len(evs) :
                     \/ evs[k].type \notin {"Connected", "Disconnected"}
                     \/ SlotOf(post, evs[k].id) # i)
                    => post.gamepads[i].connected = gamepads[i].connected

\* C37 witness: after a poll the slot of the watched device is not connected
\* and holds a button pressed during this poll, and neither get() nor all()
\* returns it.
C37_Witness ==
    /\ op = "poll"
    /\ SlotOf(Self, WatchedHandle) # None
    /\ ~WatchedPad.connected
    /\ is_just_pressed(WatchedPad, WatchedLogical)
    /\ is_currently_pressed(WatchedPad, WatchedLogical)
    /\ get(Self, SlotOf(Self, WatchedHandle)) = <<>>
    /\ SlotOf(Self, WatchedHandle) \notin Listed(Self)

\* C38: ingesting an event with handle h changes the connected flag, the
\* pressed mask, the axes and the deadzones of at most the slot of h; every
\* other slot is as it was.  Over a whole poll a slot that no event of the
\* queue addresses changes in its just-pressed mask only, which the start of
\* the poll clears in every slot.
C38_OtherSlotsUntouched ==
    /\ \A ev \in AnyEvents \cup UNION {PairEvents(h) : h \in FewDevices} :
          LET post == Ingest(Self, ev)
          IN  \A i \in Slots :
                 i # SlotOf(post, ev.id) =>
                    /\ post.gamepads[i] = gamepads[i]
                    /\ post.deadzones[i] = deadzones[i]
                    /\ post.gilrs_gamepad_ids[i] = gilrs_gamepad_ids[i]
    /\ \A evs \in PairBatches(num_connected_pads) :
          LET post == poll(Self, evs)
          IN  \A i \in Slots :
                 (\A k \in 1 .. Len(evs) : SlotOf(post, evs[k].id) # i) =>
                    /\ post.gamepads[i]
                          = [gamepads[i] EXCEPT !.just_pressed_bits = 0]
                    /\ post.deadzones[i] = deadzones[i]

\* C38 witness: after a poll two devices have slots, and the two slots
\* differ in the connected flag, the pressed mask, an axis and a deadzone.
C38_Witness ==
    /\ op = "poll"
    /\ \E i, j \in Occupied(Self) :
          /\ gamepads[i].connected /\ ~gamepads[j].connected
          /\ gamepads[i].pressed_bits # gamepads[j].pressed_bits
          /\ gamepads[i].axes # gamepads[j].axes
          /\ deadzones[i] # deadzones[j]

\* C39: in the raw-input adapter no event on_event ingests (key-down,
\* key-up, axis update, touch) changes the connected flag of a slot; a slot
\* claimed by on_event stays not connected, and neither all() nor get()
\* returns its buttons and axes.
C39_RawInputNeverConnects ==
    /\ [](/\ \A event \in RawEvents : \A i \in Slots :
              on_event(Self, event).gamepads[i].connected = gamepads[i].connected
          /\ \A i \in Occupied(Self) :
                /\ ~gamepads[i].connected
                /\ get(Self, i) = <<>>
          /\ all(Self) = <<>>)
    /\ [][\A i \in Slots : gamepads'[i].connected = gamepads[i].connected]_vars

\* C39 witness: on_event has claimed a slot for the watched device and left
\* a pressed button and an axis value in it, and all() returns nothing.
C39_Witness ==
    /\ op \in {"KeyboardInput", "AxisUpdate"}
    /\ SlotOf(Self, WatchedHandle) # None
    /\ all_currently_pressed(WatchedPad) # <<>>
    /\ \E a \in AxisIdxs : WatchedPad.axes[a][1] # 0
    /\ all(Self) = <<>>
    /\ get(Self, SlotOf(Self, WatchedHandle)) = <<>>

\* C40: in every reachable state of the event-stream adapter
\* num_connected_pads is between 0 and 8, the handles at the indices below
\* it differ from each other and from the free sentinel, every entry at an
\* index from num_connected_pads on holds the free sentinel, and
\* find_or_insert gives a handle without a slot the lowest free index.
C40_SlotTableInvariant ==
    /\ num_connected_pads \in 0 .. MAX_GAMEPADS
    /\ \A i \in Slots :
          IF i < num_connected_pads
          THEN /\ gilrs_gamepad_ids[i] # USIZE_MAX
               /\ \A j \in Slots :
                     (j < num_connected_pads /\ j # i)
                        => gilrs_gamepad_ids[j] # gilrs_gamepad_ids[i]
          ELSE gilrs_gamepad_ids[i] = USIZE_MAX
    /\ \A h \in Handles :
          SlotOf(Self, h) = None =>
             LET r == find_or_insert(Self, h)
                 free == {i \in Slots : gilrs_gamepad_ids[i] = USIZE_MAX}
             IN  IF free = {}
                 THEN r.idx = None /\ r.self = Self
                 ELSE /\ r.idx \in free
                      /\ \A i \in free : r.idx <= i
                      /\ r.self.gilrs_gamepad_ids[r.idx] = h
                      /\ r.self.num_connected_pads = num_connected_pads + 1

\* C40 witness: after a poll some slots are claimed and some are free.
C40_Witness ==
    /\ op = "poll"
    /\ num_connected_pads > 1
    /\ num_connected_pads < MAX_GAMEPADS
    /\ "disconnected" \in tags

=============================================================================
